---------------------------- MODULE Spec2Model ----------------------------
(***************************************************************************)
(* Model of the Stonks portfolio tracker: the candle cache of              *)
(* src/src/lib/db/index.ts, the history orchestrator usePortfolioHistory   *)
(* (src/unnamed/part_000) and the valuation functions of                   *)
(* portfolioCalculations (src/unnamed/part_003).                           *)
(*                                                                         *)
(* Time is counted in hours since the epoch (a JavaScript timestamp        *)
(* divided by 3 600 000).  A 'YYYY-MM-DD' date string is modelled by its   *)
(* UTC day number (days since 1970-01-01): ISO date strings of one era     *)
(* compare, with < and localeCompare, as their day numbers do.             *)
(***************************************************************************)
EXTENDS Integers, Sequences, FiniteSets, TLC

(***************************************************************************)
(* Bounds of the model.                                                    *)
(***************************************************************************)
\* number of cacheCandles calls issued in one behaviour of SpecCache; all of
\* them can be in flight together
MaxPuts == 2
\* number of invocations of fetchHistoricalData in one behaviour of Spec; all
\* of them can be in flight together
MaxInv == 2

(***************************************************************************)
(* Program constants.                                                      *)
(***************************************************************************)
\* 1000 * 60 * 60 * 24 ms, in hours
HoursPerDay == 24
\* validateCacheCoverage: days the cache may start after the required start
CoverageStartSlack == 5
\* validateCacheCoverage: days the cache may end before the required end
CoverageEndSlack == 2


(***************************************************************************)
(* Dates.                                                                  *)
(***************************************************************************)
\* date.toISOString().split('T')[0]: the UTC calendar day of a timestamp
FormatDateString(ts) == ts \div HoursPerDay

\* new Date('YYYY-MM-DD').getTime(): UTC midnight of the day
DateOf(day) == day * HoursPerDay

(***************************************************************************)
(* The local calendar.  tz is the offset of local time from UTC in hours   *)
(* (local = UTC + tz), taken as fixed: no daylight-saving change falls in  *)
(* the days that are modelled.                                             *)
(***************************************************************************)
\* the local calendar day (days since 1970-01-01) a timestamp falls on
LocalDay(ts, tz) == (ts + tz) \div HoursPerDay

\* date.setHours(0, 0, 0, 0): local midnight of the timestamp's local day
SetHoursZero(ts, tz) == LocalDay(ts, tz) * HoursPerDay - tz

\* date.getDay(): local day of the week, 0 = Sunday; 1970-01-01 was a Thursday
GetDay(ts, tz) == (LocalDay(ts, tz) + 4) % 7

\* day number of the civil date y-m-d (m in 1..12; d may run over the month)
DaysFromCivil(y, m, d) ==
  LET y2 == IF m <= 2 THEN y - 1 ELSE y
      era == y2 \div 400
      yoe == y2 - era * 400
      mp == (m + 9) % 12
      doy == (153 * mp + 2) \div 5 + d - 1
      doe == yoe * 365 + yoe \div 4 - yoe \div 100 + doy
  IN era * 146097 + doe - 719468

\* civil date <<year, month (1..12), day>> of a day number
CivilFromDays(z) ==
  LET z2 == z + 719468
      era == z2 \div 146097
      doe == z2 - era * 146097
      yoe == (doe - doe \div 1460 + doe \div 36524 - doe \div 146096) \div 365
      doy == doe - (365 * yoe + yoe \div 4 - yoe \div 100)
      mp == (5 * doy + 2) \div 153
      d == doy - (153 * mp + 2) \div 5 + 1
      m == IF mp < 10 THEN mp + 3 ELSE mp - 9
      y == yoe + era * 400
  IN << (IF m <= 2 THEN y + 1 ELSE y), m, d >>

\* new Date(year, monthIndex, date) in local time, monthIndex counted from
\* the civil month (1..12) by monthsBack months and yearsBack years; month
\* and day overflow are normalised as Date does
LocalDate(civil, yearsBack, monthsBack, tz) ==
  LET months == (civil[1] - yearsBack) * 12 + (civil[2] - 1) - monthsBack
      y == months \div 12
      m == (months % 12) + 1
  IN (DaysFromCivil(y, m, 1) + civil[3] - 1) * HoursPerDay - tz

(***************************************************************************)
(* Symbols.                                                                *)
(***************************************************************************)
\* a conversion that leaves the letters as they are
ToUpperCaseSkipped(s) == s

ToUpperCase(s) ==
  CASE s = "aapl" -> "AAPL"
    [] s = "msft" -> "MSFT"
    [] OTHER -> s

(***************************************************************************)
(* Sequence helpers.                                                       *)
(***************************************************************************)
Range(seq) == {seq[i] : i \in 1..Len(seq)}

\* Array.prototype.sort / Dexie sortBy on the date: a stable insertion sort
RECURSIVE InsertByDate(_, _)
InsertByDate(sorted, c) ==
  IF sorted = <<>> THEN <<c>>
  ELSE IF Head(sorted).date <= c.date
       THEN <<Head(sorted)>> \o InsertByDate(Tail(sorted), c)
       ELSE <<c>> \o sorted

RECURSIVE SortByDate(_)
SortByDate(seq) ==
  IF seq = <<>> THEN <<>>
  ELSE InsertByDate(SortByDate(SubSeq(seq, 1, Len(seq) - 1)), seq[Len(seq)])

(***************************************************************************)
(* The candle cache (Dexie tables dailyCandles and cacheMeta).             *)
(*                                                                         *)
(* dailyCandles has the auto-incremented primary key ++id and no unique    *)
(* index; a row written without an id is always a new row.  The table is   *)
(* the sequence of its rows in id order.  A row keeps symbol, date,        *)
(* provider and close (open, high, low and volume are carried along by     *)
(* the code and read by nothing that is modelled here).                    *)
(* cacheMeta has the primary key symbol: a put of a row replaces the row   *)
(* of the same symbol.  The table is the set of its rows.                  *)
(***************************************************************************)

\* db.dailyCandles.where('symbol').equals(s).and(c => c.provider === p)
CandlesOf(table, s, p) ==
  SelectSeq(table, LAMBDA c : c.symbol = s /\ c.provider = p)

\* a cacheCandles that does not clear the pair's rows before it writes
DeleteCandlesSkipped(table, upperSymbol, provider) == table

\* .where('symbol').equals(upperSymbol).and(provider filter).delete()
DeleteCandles(table, upperSymbol, provider) ==
  SelectSeq(table, LAMBDA c : ~(c.symbol = upperSymbol /\ c.provider = provider))

\* db.dailyCandles.bulkPut(candles.map(c => ({...c, symbol: upperSymbol})))
BulkPutCandles(table, upperSymbol, candles) ==
  table \o [i \in 1..Len(candles) |->
              [symbol |-> upperSymbol, date |-> candles[i].date,
               provider |-> candles[i].provider, close |-> candles[i].close]]

\* db.cacheMeta.put({symbol, provider, lastSync, candleCount})
PutMeta(meta, upperSymbol, provider, count) ==
  {m \in meta : m.symbol # upperSymbol}
     \cup {[symbol |-> upperSymbol, provider |-> provider, candleCount |-> count]}

\* getCandlesInRange(symbol, provider, fromDate, toDate)
getCandlesInRange(table, symbol, provider, fromDate, toDate) ==
  SortByDate(SelectSeq(table, LAMBDA c :
     /\ c.symbol = ToUpperCase(symbol)
     /\ c.provider = provider
     /\ c.date >= fromDate
     /\ c.date <= toDate))

\* db.dailyCandles.where('symbol').equals(entry.symbol).count()
CountBySymbol(table, s) == Len(SelectSeq(table, LAMBDA c : c.symbol = s))

\* the OHLC to DailyCandle conversion of fetchHistoricalData
ToDailyCandles(symbol, activeProvider, ohlcData) ==
  [i \in 1..Len(ohlcData) |->
     [symbol |-> ToUpperCase(symbol),
      date |-> FormatDateString(ohlcData[i].time),
      provider |-> activeProvider,
      close |-> ohlcData[i].close]]


(***************************************************************************)
(* State.                                                                  *)
(***************************************************************************)
VARIABLES
  \* the Dexie tables
  dailyCandles, cacheMeta,
  \* the cacheCandles calls: task k is the k-th call issued
  tasks,
  \* a caller of getCandlesInRange or verifyCacheIntegrity
  observer,
  \* history of the cacheCandles calls: how many were issued, whether two of
  \* them ever overlapped, and per (symbol, provider) pair the candle lists
  \* passed so far, the number of completed calls and the list of the call
  \* that completed last
  nPuts, overlapped, putSets, putsDone, lastPut,
  \* the clock (new Date(), in hours) and the offset of local time from UTC
  clock, tzOffset,
  \* one call of computePortfolioHistory: its arguments and what it returned
  calc,
  \* one call of generateTradingDays: its arguments and what it returned
  dayCall,
  \* one call of validateCacheCoverage: its arguments and what it returned
  coverCall,
  \* one call of computeAllocation: its argument and what it returned
  allocCall,
  \* the quotes and watchlist tables, the next auto-incremented watchlist id
  \* and the addToWatchlist calls
  quotes, watchlist, nextWatchId, watchTasks, nWatch,
  \* usePortfolioStore: its state and the calls of its actions
  portfolios, activePortfolioId, storeHoldings, storeIsLoading, storeError,
  storeTasks, nStore, createsOverlapped,
  \* useSettingsStore
  apiKeys, activeProviderSetting, storageMode, settingsCall,
  \* usePortfolioHistory: the refs and the React state it returns
  fetchIdRef, abortControllerRef, data, isLoading, error, failedSymbols,
  \* the invocations of fetchHistoricalData, numbered in the order they
  \* start, and how many have started
  inv, nInv,
  \* history: the AbortControllers that were aborted, and the invocation
  \* that wrote data, error or failedSymbols last
  aborted, lastWriter,
  \* the Dexie tables portfolios and holdings and their auto-increment keys
  portfolioRows, holdingRows, nextPortfolioId, nextHoldingId,
  \* the addHolding calls: task k is the k-th call issued
  addTasks,
  \* history of the addHolding calls: how many were issued, what each one
  \* added, and whether two of them ever overlapped
  nAdds, additions, addsOverlapped

dbVars == <<dailyCandles, cacheMeta>>
cacheVars == <<tasks, observer, nPuts, overlapped, putSets, putsDone, lastPut>>
pfTables == <<portfolioRows, holdingRows, nextPortfolioId, nextHoldingId>>
pfVars == <<pfTables, addTasks, nAdds, additions, addsOverlapped>>
callVars == <<calc, dayCall, coverCall, allocCall>>
wlVars == <<quotes, watchlist, nextWatchId, watchTasks, nWatch>>
storeState == <<portfolios, activePortfolioId, storeHoldings, storeIsLoading, storeError>>
storeVars == <<storeState, storeTasks, nStore, createsOverlapped>>
settingsState == <<apiKeys, activeProviderSetting, storageMode>>
settingsVars == <<settingsState, settingsCall>>
uiVars == <<storeVars, settingsVars>>
envVars == <<clock, tzOffset, callVars, pfVars, wlVars, uiVars>>
published == <<data, isLoading, error, failedSymbols>>
hookVars == <<fetchIdRef, abortControllerRef, published, inv, nInv, aborted, lastWriter>>
vars == <<dbVars, cacheVars, envVars, hookVars>>

(***************************************************************************)
(* Inputs of the cache functions.                                          *)
(***************************************************************************)
SymbolInputs == {"AAPL", "aapl", "MSFT"}
Symbols == {ToUpperCase(s) : s \in SymbolInputs}
Providers == {"finnhub", "alphavantage"}
Pairs == Symbols \X Providers

\* provider results (OHLC[]): daily bars, time in hours since the epoch
OhlcA == << [time |-> 8 * HoursPerDay, close |-> 10],
            [time |-> 11 * HoursPerDay + 21, close |-> 11] >>
OhlcB == << [time |-> 11 * HoursPerDay, close |-> 20],
            [time |-> 12 * HoursPerDay + 21, close |-> 21],
            [time |-> 13 * HoursPerDay, close |-> 22] >>
OhlcInputs == {OhlcA, OhlcB}

\* the [fromDate, toDate] windows a reader asks for
WindowInputs == {<<8, 13>>, <<11, 12>>}

TaskIds == 1..MaxPuts
IdleTask == [pc |-> "idle"]
PutPcs == {"delete", "bulkPut", "metaPut"}
InPut(t) == tasks[t].pc \in PutPcs
NoPutInFlight == \A u \in TaskIds : ~InPut(u)

(***************************************************************************)
(* cacheCandles(symbol, provider, candles): three awaited table            *)
(* operations, each its own implicit transaction.                          *)
(***************************************************************************)
\* the call: upperSymbol is computed and the delete is issued
CacheCandlesCall(symbol, provider, candles) ==
  /\ nPuts < MaxPuts
  /\ tasks' = [tasks EXCEPT ![nPuts + 1] =
        [pc |-> "delete", upperSymbol |-> ToUpperCase(symbol),
         provider |-> provider, candles |-> candles,
         old |-> CandlesOf(dailyCandles, ToUpperCase(symbol), provider)]]
  /\ nPuts' = nPuts + 1
  /\ putSets' = [putSets EXCEPT ![<<ToUpperCase(symbol), provider>>] = @ \cup {candles}]
  /\ overlapped' = (overlapped \/ ~NoPutInFlight)
  /\ UNCHANGED <<dbVars, observer, putsDone, lastPut, envVars, hookVars>>

\* await db.dailyCandles.where(...).delete()
CacheCandlesDelete(t) ==
  /\ tasks[t].pc = "delete"
  /\ dailyCandles' = DeleteCandles(dailyCandles, tasks[t].upperSymbol, tasks[t].provider)
  /\ tasks' = [tasks EXCEPT ![t].pc = "bulkPut"]
  /\ UNCHANGED <<cacheMeta, observer, nPuts, overlapped, putSets, putsDone, lastPut, envVars, hookVars>>

\* await db.dailyCandles.bulkPut(...)
CacheCandlesBulkPut(t) ==
  /\ tasks[t].pc = "bulkPut"
  /\ dailyCandles' = BulkPutCandles(dailyCandles, tasks[t].upperSymbol, tasks[t].candles)
  /\ tasks' = [tasks EXCEPT ![t].pc = "metaPut"]
  /\ UNCHANGED <<cacheMeta, observer, nPuts, overlapped, putSets, putsDone, lastPut, envVars, hookVars>>

\* await db.cacheMeta.put(...), after which the call returns
CacheCandlesMeta(t) ==
  /\ tasks[t].pc = "metaPut"
  /\ cacheMeta' = PutMeta(cacheMeta, tasks[t].upperSymbol, tasks[t].provider,
                          Len(tasks[t].candles))
  /\ putsDone' = [putsDone EXCEPT ![<<tasks[t].upperSymbol, tasks[t].provider>>] = @ + 1]
  /\ lastPut' = [lastPut EXCEPT ![<<tasks[t].upperSymbol, tasks[t].provider>>] = tasks[t].candles]
  /\ tasks' = [tasks EXCEPT ![t] = [pc |-> "done"]]
  /\ UNCHANGED <<dailyCandles, observer, nPuts, overlapped, putSets, envVars, hookVars>>

(***************************************************************************)
(* A reader: getCandlesInRange is one query, one read transaction.  The    *)
(* observer keeps what it got until it has used it and, for the            *)
(* cacheCandles calls of the same pair in flight at the time of the query, *)
(* the stored list each found (old) and the list it writes (new).          *)
(***************************************************************************)
PutsInFlightFor(s, p) ==
  {u \in TaskIds : InPut(u) /\ tasks[u].upperSymbol = s /\ tasks[u].provider = p}

ReadCandlesInRange(symbol, provider, fromDate, toDate) ==
  /\ observer.pc = "idle"
  /\ observer' =
       [pc |-> "readDone", symbol |-> symbol, provider |-> provider,
        fromDate |-> fromDate, toDate |-> toDate,
        result |-> getCandlesInRange(dailyCandles, symbol, provider, fromDate, toDate),
        during |-> {[old |-> tasks[u].old, new |-> tasks[u].candles] :
                      u \in PutsInFlightFor(ToUpperCase(symbol), provider)},
        overlapped |-> overlapped]
  /\ UNCHANGED <<dbVars, tasks, nPuts, overlapped, putSets, putsDone, lastPut, envVars, hookVars>>

(***************************************************************************)
(* verifyCacheIntegrity(): meta = await cacheMeta.toArray(), then one      *)
(* awaited count per entry.  toArray returns the rows in primary key       *)
(* (symbol) order.  clean records that no cacheCandles call was in flight  *)
(* at any time between the call and the return.                            *)
(***************************************************************************)
SymbolOrder == <<"AAPL", "MSFT">>

MetaToArray(meta) ==
  LET rowOf(s) == CHOOSE m \in meta : m.symbol = s
      RECURSIVE build(_)
      build(i) ==
        IF i > Len(SymbolOrder) THEN <<>>
        ELSE (IF \E m \in meta : m.symbol = SymbolOrder[i]
              THEN <<rowOf(SymbolOrder[i])>> ELSE <<>>) \o build(i + 1)
  IN build(1)

\* the call, up to the result of const meta = await db.cacheMeta.toArray();
\* an empty table ends the loop at once
VerifyMeta ==
  /\ observer.pc = "idle"
  /\ IF cacheMeta = {}
     THEN observer' = [pc |-> "verifyDone", corrupted |-> <<>>, clean |-> NoPutInFlight,
                       putsAtCall |-> nPuts]
     ELSE observer' = [pc |-> "verifyCount", clean |-> NoPutInFlight, putsAtCall |-> nPuts,
                       entries |-> MetaToArray(cacheMeta), corrupted |-> <<>>]
  /\ UNCHANGED <<dbVars, tasks, nPuts, overlapped, putSets, putsDone, lastPut, envVars, hookVars>>

\* one turn of the loop: the awaited count of the entry's symbol, the comparison
\* with entry.candleCount; after the last entry the function returns corrupted
VerifyCount ==
  /\ observer.pc = "verifyCount"
  /\ LET entry == Head(observer.entries)
         actualCount == CountBySymbol(dailyCandles, entry.symbol)
         corrupted == IF actualCount # entry.candleCount
                      THEN Append(observer.corrupted, entry.symbol)
                      ELSE observer.corrupted
     IN IF Len(observer.entries) = 1
        THEN observer' = [pc |-> "verifyDone", corrupted |-> corrupted,
                          clean |-> observer.clean /\ observer.putsAtCall = nPuts,
                          putsAtCall |-> observer.putsAtCall]
        ELSE observer' = [observer EXCEPT !.entries = Tail(@), !.corrupted = corrupted]
  /\ UNCHANGED <<dbVars, tasks, nPuts, overlapped, putSets, putsDone, lastPut, envVars, hookVars>>

\* the observer has used the result of its read or verification
ObserverReturn ==
  /\ observer.pc \in {"readDone", "verifyDone"}
  /\ observer' = IdleTask
  /\ UNCHANGED <<dbVars, tasks, nPuts, overlapped, putSets, putsDone, lastPut, envVars, hookVars>>

(***************************************************************************)
(* usePortfolioHistory when nothing has been invoked.                      *)
(***************************************************************************)
NoError == "null"
InvIds == 1..MaxInv
IdleInv == [pc |-> "idle"]
\* Tuesday 1970-01-13, 10:00 UTC
Now == 12 * HoursPerDay + 10

NoCalc == [pc |-> "off"]
NoDayCall == [pc |-> "off"]
NoCoverCall == [pc |-> "off"]
NoAllocCall == [pc |-> "off"]

\* bound on the addHolding calls issued in one behaviour of SpecDb; all of
\* them can be in flight together
MaxAdds == 2
\* bound on the portfolios created in one behaviour of SpecDb
MaxPortfolios == 2
AddIds == 1..MaxAdds
IdleAdd == [pc |-> "idle"]

\* the portfolio tables after construction, and no addHolding call issued
PortfolioDbEmpty ==
  /\ portfolioRows = {}
  /\ holdingRows = {}
  /\ nextPortfolioId = 1
  /\ nextHoldingId = 1
  /\ addTasks = [k \in AddIds |-> IdleAdd]
  /\ nAdds = 0
  /\ additions = {}
  /\ addsOverlapped = FALSE

\* bound on the addToWatchlist calls issued in one behaviour; all of them can
\* be in flight together
MaxWatch == 2
WatchIds == 1..MaxWatch
IdleWatch == [pc |-> "idle"]

\* the quotes and watchlist tables after construction, and no addToWatchlist
\* call issued
WatchDbEmpty ==
  /\ quotes = {}
  /\ watchlist = {}
  /\ nextWatchId = 1
  /\ watchTasks = [k \in WatchIds |-> IdleWatch]
  /\ nWatch = 0

\* bound on the calls of usePortfolioStore actions issued in one behaviour;
\* all of them can be in flight together
MaxStore == 4
StoreIds == 1..MaxStore
IdleStore == [pc |-> "idle"]
\* null
NoId == 0
NoStoreError == "null"

\* usePortfolioStore after create(), and no action called
StoreInitial ==
  /\ portfolios = <<>>
  /\ activePortfolioId = NoId
  /\ storeHoldings = {}
  /\ storeIsLoading = FALSE
  /\ storeError = NoStoreError
  /\ storeTasks = [k \in StoreIds |-> IdleStore]
  /\ nStore = 0
  /\ createsOverlapped = FALSE

NoActiveProvider == "null"

\* useSettingsStore after create(), nothing persisted
SettingsInitial ==
  /\ apiKeys = <<>>
  /\ activeProviderSetting = NoActiveProvider
  /\ storageMode = "session"
  /\ settingsCall = [op |-> "none", provider |-> NoActiveProvider]

EnvFixed ==
  /\ clock = Now
  /\ tzOffset = 0
  /\ calc = NoCalc
  /\ dayCall = NoDayCall
  /\ coverCall = NoCoverCall
  /\ allocCall = NoAllocCall
  /\ PortfolioDbEmpty
  /\ WatchDbEmpty
  /\ StoreInitial
  /\ SettingsInitial

HookIdle ==
  /\ fetchIdRef = 0
  /\ abortControllerRef = 0
  /\ data = <<>>
  /\ isLoading = FALSE
  /\ error = NoError
  /\ failedSymbols = <<>>
  /\ inv = [i \in InvIds |-> IdleInv]
  /\ nInv = 0
  /\ aborted = {}
  /\ lastWriter = 0

(***************************************************************************)
(* The cache and its callers.                                              *)
(***************************************************************************)
InitCache ==
  /\ dailyCandles = <<>>
  /\ cacheMeta = {}
  /\ tasks = [t \in TaskIds |-> IdleTask]
  /\ observer = IdleTask
  /\ nPuts = 0
  /\ overlapped = FALSE
  /\ putSets = [pr \in Pairs |-> {}]
  /\ putsDone = [pr \in Pairs |-> 0]
  /\ lastPut = [pr \in Pairs |-> <<>>]
  /\ EnvFixed
  /\ HookIdle

NextCache ==
  \/ \E s \in SymbolInputs, p \in Providers, o \in OhlcInputs :
        CacheCandlesCall(s, p, ToDailyCandles(s, p, o))
  \/ \E t \in TaskIds : CacheCandlesDelete(t)
  \/ \E t \in TaskIds : CacheCandlesBulkPut(t)
  \/ \E t \in TaskIds : CacheCandlesMeta(t)
  \/ \E s \in SymbolInputs, p \in Providers, w \in WindowInputs :
        ReadCandlesInRange(s, p, w[1], w[2])
  \/ VerifyMeta
  \/ VerifyCount
  \/ ObserverReturn

SpecCache == InitCache /\ [][NextCache]_vars


(***************************************************************************)
(* Properties of the cache.                                                *)
(***************************************************************************)
\* the (date, close) points of a list of rows or candles, in list order
PointsOf(rows) == [i \in 1..Len(rows) |-> <<rows[i].date, rows[i].close>>]
StoredPoints(pr) == PointsOf(CandlesOf(dailyCandles, pr[1], pr[2]))
DatesOf(rows) == {rows[i].date : i \in 1..Len(rows)}
NoDateTwice(pr) ==
  Cardinality(DatesOf(CandlesOf(dailyCandles, pr[1], pr[2])))
     = Len(CandlesOf(dailyCandles, pr[1], pr[2]))

\* C4: when the cacheCandles calls ran one after the other, each pair that was
\* put holds exactly the points of the call that completed last for it, no
\* point of an earlier call and no date twice.
C4_PutReplaces ==
  (NoPutInFlight /\ ~overlapped) =>
     \A pr \in Pairs : putsDone[pr] > 0 =>
        /\ StoredPoints(pr) = PointsOf(lastPut[pr])
        /\ NoDateTwice(pr)

\* two calls for one pair have completed one after the other, the first with a
\* list that shares a date with the second and has a date the second has not
C4_Witness ==
  /\ NoPutInFlight /\ ~overlapped
  /\ \E pr \in Pairs :
       /\ putsDone[pr] = 2
       /\ \E first \in putSets[pr] :
            /\ first # lastPut[pr]
            /\ DatesOf(first) \cap DatesOf(lastPut[pr]) # {}
            /\ DatesOf(first) \ DatesOf(lastPut[pr]) # {}
       /\ StoredPoints(pr) = PointsOf(lastPut[pr])

\* C5: once every cacheCandles call has completed, whatever the interleaving
\* of their steps, each pair holds the points of one of the calls made for it
\* and no (symbol, provider, date) twice.
C5_LastWriterWins ==
  NoPutInFlight =>
     \A pr \in Pairs : putsDone[pr] > 0 =>
        /\ \E c \in putSets[pr] : StoredPoints(pr) = PointsOf(c)
        /\ NoDateTwice(pr)

\* the points of a list that fall in a window, by ascending date
InWindow(rows, fromDate, toDate) ==
  PointsOf(SortByDate(SelectSeq(rows, LAMBDA c : c.date >= fromDate /\ c.date <= toDate)))

\* C6: a range read made while one cacheCandles call of the same pair is in
\* flight returns the complete old list or the complete new list of the pair.
C6_ReadSeesOldOrNew ==
  (/\ observer.pc = "readDone"
   /\ ~observer.overlapped
   /\ Cardinality(observer.during) = 1) =>
     \A d \in observer.during :
        \/ PointsOf(observer.result) = InWindow(d.old, observer.fromDate, observer.toDate)
        \/ PointsOf(observer.result) = InWindow(d.new, observer.fromDate, observer.toDate)

\* C7: after cacheCandles calls that ran one after the other, every pair that
\* was put has a cacheMeta row of its own whose candleCount is the number of
\* rows stored for the pair.
C7_MetaRowPerPair ==
  (NoPutInFlight /\ ~overlapped) =>
     \A pr \in Pairs : putsDone[pr] > 0 =>
        \E m \in cacheMeta :
           /\ m.symbol = pr[1]
           /\ m.provider = pr[2]
           /\ m.candleCount = Len(CandlesOf(dailyCandles, pr[1], pr[2]))

\* the symbols whose pair's stored row count differs from the pair's candleCount
MiscountedSymbols ==
  {m.symbol : m \in {e \in cacheMeta :
      Len(CandlesOf(dailyCandles, e.symbol, e.provider)) # e.candleCount}}

\* C8: a verifyCacheIntegrity that ran with no cacheCandles call in flight,
\* after calls that ran one after the other, returns the symbols whose pair is
\* miscounted, and so returns none (the tables are those it has read: no call
\* was issued since).
C8_VerifyExact ==
  (/\ observer.pc = "verifyDone"
   /\ observer.clean
   /\ observer.putsAtCall = nPuts
   /\ ~overlapped) =>
     /\ Range(observer.corrupted) = MiscountedSymbols
     /\ observer.corrupted = <<>>


(***************************************************************************)
(* portfolioCalculations: the trading calendar and the valuation.          *)
(* A holding is [symbol, shares, addedAt]; candlesBySymbol is a function   *)
(* from the symbols that have candles to their candle lists.               *)
(***************************************************************************)
DateRanges == {"1W", "1M", "3M", "6M", "1Y", "ALL"}

\* getDateRangeStart(range, earliestDate), with now = new Date()
getDateRangeStart(range, earliestDate, now, tz) ==
  LET now0 == SetHoursZero(now, tz)
      civil == CivilFromDays(LocalDay(now0, tz))
  IN CASE range = "1W" -> now0 - 7 * HoursPerDay
       [] range = "1M" -> LocalDate(civil, 0, 1, tz)
       [] range = "3M" -> LocalDate(civil, 0, 3, tz)
       [] range = "6M" -> LocalDate(civil, 0, 6, tz)
       [] range = "1Y" -> LocalDate(civil, 1, 0, tz)
       [] OTHER -> earliestDate

\* the while loop of generateTradingDays, from local midnight current
RECURSIVE TradingDaysFrom(_, _, _)
TradingDaysFrom(current, end, tz) ==
  IF current > end THEN <<>>
  ELSE (IF GetDay(current, tz) # 0 /\ GetDay(current, tz) # 6
        THEN <<FormatDateString(current)>> ELSE <<>>)
       \o TradingDaysFrom(current + HoursPerDay, end, tz)

\* generateTradingDays(startDate, endDate)
generateTradingDays(startDate, endDate, tz) ==
  TradingDaysFrom(SetHoursZero(startDate, tz), SetHoursZero(endDate, tz), tz)

\* Math.min(...holdings.map(h => h.addedAt))
MinAddedAt(holdings) ==
  CHOOSE a \in {holdings[i].addedAt : i \in 1..Len(holdings)} :
     \A i \in 1..Len(holdings) : a <= holdings[i].addedAt

\* priceMap of a candle list: Map.set in list order, the last candle of a date wins
RECURSIVE PriceMapOf(_)
PriceMapOf(candles) ==
  IF candles = <<>> THEN << >>
  ELSE LET rest == PriceMapOf(SubSeq(candles, 1, Len(candles) - 1))
           c == candles[Len(candles)]
       IN [d \in DOMAIN rest \cup {c.date} |-> IF d = c.date THEN c.close ELSE rest[d]]

PriceMaps(candlesBySymbol) ==
  [s \in DOMAIN candlesBySymbol |-> PriceMapOf(candlesBySymbol[s])]

\* the loop over the holdings for one trading day: k is the next holding,
\* acc = [value, last, used] the day's value so far, lastKnownPrices and the
\* indices of the holdings that added to the value
RECURSIVE DayLoop(_, _, _, _, _)
DayLoop(holdings, priceMaps, dateStr, k, acc) ==
  IF k > Len(holdings) THEN acc
  ELSE LET h == holdings[k]
       IN IF h.addedAt > DateOf(dateStr)
          THEN DayLoop(holdings, priceMaps, dateStr, k + 1, acc)
          ELSE LET inMap == h.symbol \in DOMAIN priceMaps
                           /\ dateStr \in DOMAIN priceMaps[h.symbol]
                   known == h.symbol \in DOMAIN acc.last
                   last2 == IF inMap
                            THEN [s \in DOMAIN acc.last \cup {h.symbol} |->
                                    IF s = h.symbol THEN priceMaps[h.symbol][dateStr]
                                    ELSE acc.last[s]]
                            ELSE acc.last
                   acc2 == IF inMap \/ known
                           THEN [value |-> acc.value + h.shares * last2[h.symbol],
                                 last |-> last2,
                                 used |-> acc.used \cup {k}]
                           ELSE acc
               IN DayLoop(holdings, priceMaps, dateStr, k + 1, acc2)

\* the loop over the trading days with lastKnownPrices emptied after every day
RECURSIVE DaysLoopForgets(_, _, _, _, _)
DaysLoopForgets(holdings, priceMaps, tradingDays, j, last) ==
  IF j > Len(tradingDays) THEN <<>>
  ELSE LET acc == DayLoop(holdings, priceMaps, tradingDays[j], 1,
                          [value |-> 0, last |-> << >>, used |-> {}])
       IN <<[date |-> tradingDays[j], value |-> acc.value, used |-> acc.used]>>
          \o DaysLoopForgets(holdings, priceMaps, tradingDays, j + 1, << >>)

\* the loop over the trading days: one record [date, value, used] per day,
\* whether or not the day is emitted
RECURSIVE DaysLoop(_, _, _, _, _)
DaysLoop(holdings, priceMaps, tradingDays, j, last) ==
  IF j > Len(tradingDays) THEN <<>>
  ELSE LET acc == DayLoop(holdings, priceMaps, tradingDays[j], 1,
                          [value |-> 0, last |-> last, used |-> {}])
       IN <<[date |-> tradingDays[j], value |-> acc.value, used |-> acc.used]>>
          \o DaysLoop(holdings, priceMaps, tradingDays, j + 1, acc.last)

\* the trading days of computePortfolioHistory
HistoryDays(holdings, range, now, tz) ==
  LET earliestDate == SetHoursZero(MinAddedAt(holdings), tz)
      today == SetHoursZero(now, tz)
      rangeStart == getDateRangeStart(range, earliestDate, now, tz)
      startDate == IF rangeStart > earliestDate THEN rangeStart ELSE earliestDate
  IN generateTradingDays(startDate, today, tz)

\* the per-day valuation of computePortfolioHistory, before the days without
\* value are dropped
HistoryTrace(holdings, candlesBySymbol, range, now, tz) ==
  IF holdings = <<>> THEN <<>>
  ELSE DaysLoop(holdings, PriceMaps(candlesBySymbol),
                HistoryDays(holdings, range, now, tz), 1, << >>)

\* computePortfolioHistory pushing a point for every trading day
computePortfolioHistoryZeroFilled(holdings, candlesBySymbol, range, now, tz) ==
  LET trace == HistoryTrace(holdings, candlesBySymbol, range, now, tz)
  IN [i \in 1..Len(trace) |-> [date |-> trace[i].date, value |-> trace[i].value]]

\* computePortfolioHistory(holdings, candlesBySymbol, range)
computePortfolioHistory(holdings, candlesBySymbol, range, now, tz) ==
  LET trace == HistoryTrace(holdings, candlesBySymbol, range, now, tz)
      kept == SelectSeq(trace, LAMBDA r : r.value > 0)
  IN [i \in 1..Len(kept) |-> [date |-> kept[i].date, value |-> kept[i].value]]

(***************************************************************************)
(* computePortfolioHistory called on its own: the arguments, the clock and *)
(* the time zone are drawn from small sets, then the function is applied.  *)
(***************************************************************************)
\* local time minus UTC, in hours
TzInputs == {-5, 0, 2}
\* Tuesday 1970-01-13 at 10:00 UTC and at 23:00 UTC
NowInputs == {Now, 12 * HoursPerDay + 23}

\* holdings as db.addHolding stores them: addedAt is Date.now() of the call,
\* or the timestamp the caller passed
Holding(symbol, shares, addedAt) ==
  [symbol |-> symbol, shares |-> shares, addedAt |-> addedAt]
\* AAPL added at 00:00 UTC of Monday 1970-01-05
HoldingA == Holding("AAPL", 2, 4 * HoursPerDay)
\* MSFT added at 14:00 UTC of Friday 1970-01-09
HoldingM == Holding("MSFT", 1, 8 * HoursPerDay + 14)
\* AAPL added one hour ago
HoldingToday(t) == Holding("AAPL", 3, t - 1)

HoldingInputs(t) ==
  { <<>>, <<HoldingA>>, <<HoldingToday(t)>>, <<HoldingA, HoldingM>>,
    <<HoldingM, HoldingToday(t)>> }

\* a provider's daily bars: one bar at 00:00 UTC of each listed day, the close
\* a function of the day
Bars(days, base) ==
  [i \in 1..Len(days) |-> [time |-> days[i] * HoursPerDay, close |-> base + days[i]]]
\* every weekday from Friday 1970-01-02 to Wednesday 1970-01-14
AllBars(base) == Bars(<<1, 4, 5, 6, 7, 8, 11, 12, 13>>, base)
\* bars with gaps
SomeBars(base) == Bars(<<5, 8, 11>>, base)
\* bars on Monday 1970-01-05, Friday 1970-01-09 and Tuesday 1970-01-13 only
GapBars(base) == Bars(<<4, 8, 12>>, base)

CandleInputs ==
  { << >>,
    [s \in {"AAPL", "MSFT"} |->
       ToDailyCandles(s, "finnhub", AllBars(IF s = "AAPL" THEN 10 ELSE 50))],
    [s \in {"AAPL"} |-> ToDailyCandles(s, "finnhub", SomeBars(10))],
    [s \in {"AAPL", "MSFT"} |->
       ToDailyCandles(s, "finnhub", GapBars(IF s = "AAPL" THEN 10 ELSE 50))],
    [s \in {"AAPL", "MSFT"} |->
       ToDailyCandles(s, "finnhub", SomeBars(IF s = "AAPL" THEN 10 ELSE 50))] }

\* validateCacheCoverage rejecting from the thresholds on (>= in place of >)
validateCacheCoverageStrict(candles, fromDate, toDate) ==
  IF candles = <<>> THEN FALSE
  ELSE LET sorted == SortByDate(candles)
           earliestCached == sorted[1].date
           latestCached == sorted[Len(sorted)].date
       IN IF earliestCached - fromDate >= CoverageStartSlack THEN FALSE
          ELSE IF toDate - latestCached >= CoverageEndSlack THEN FALSE
          ELSE TRUE

\* a validator that accepts no series
validateCacheCoverageNever(candles, fromDate, toDate) == FALSE

\* validateCacheCoverage(candles, fromDate, toDate)
validateCacheCoverage(candles, fromDate, toDate) ==
  IF candles = <<>> THEN FALSE
  ELSE LET sorted == SortByDate(candles)
           earliestCached == sorted[1].date
           latestCached == sorted[Len(sorted)].date
       IN IF earliestCached - fromDate > CoverageStartSlack THEN FALSE
          ELSE IF toDate - latestCached > CoverageEndSlack THEN FALSE
          ELSE TRUE

\* CHART_COLORS
ChartColors == << "#6366f1", "#22c55e", "#3b82f6", "#f59e0b", "#ec4899", "#8b5cf6",
                 "#14b8a6", "#f97316" >>

\* generateChartColors(count)
generateChartColors(count) ==
  [i \in 1..count |-> ChartColors[((i - 1) % Len(ChartColors)) + 1]]

\* a HoldingWithValue: currentValue is the set holding the optional number
ValueOrZero(h) == IF h.currentValue = {} THEN 0 ELSE CHOOSE v \in h.currentValue : TRUE

\* holdings.reduce((sum, h) => sum + (h.currentValue ?? 0), 0)
RECURSIVE SumCurrentValues(_)
SumCurrentValues(holdings) ==
  IF holdings = <<>> THEN 0
  ELSE ValueOrZero(Head(holdings)) + SumCurrentValues(Tail(holdings))

\* result.sort((a, b) => b.value - a.value): stable, descending by value
RECURSIVE InsertByValue(_, _)
InsertByValue(sorted, r) ==
  IF sorted = <<>> THEN <<r>>
  ELSE IF Head(sorted).value >= r.value
       THEN <<Head(sorted)>> \o InsertByValue(Tail(sorted), r)
       ELSE <<r>> \o sorted
RECURSIVE SortByValue(_)
SortByValue(seq) ==
  IF seq = <<>> THEN <<>>
  ELSE InsertByValue(SortByValue(SubSeq(seq, 1, Len(seq) - 1)), seq[Len(seq)])

\* computeAllocation(holdings); a percentage is the exact fraction
\* <<100 * value, totalValue>>
computeAllocation(holdings) ==
  LET totalValue == SumCurrentValues(holdings)
      colors == generateChartColors(Len(holdings))
      filtered == SelectSeq(holdings, LAMBDA h : ValueOrZero(h) # 0 /\ ValueOrZero(h) > 0)
      result == [i \in 1..Len(filtered) |->
                   [symbol |-> filtered[i].symbol,
                    value |-> ValueOrZero(filtered[i]),
                    percentage |-> <<100 * ValueOrZero(filtered[i]), totalValue>>,
                    color |-> colors[i]]]
  IN IF totalValue = 0 THEN <<>> ELSE SortByValue(result)

\* the holdings computeAllocation is called with: up to three holdings, each
\* without a value, or with the value 0, -50, 100 or 300
ValueInputs == {{}, {0}, {-50}, {100}, {300}}
AllocationSymbols == <<"AAPL", "MSFT", "GOOG">>
AllocationInputs ==
  UNION { { [i \in 1..n |-> [symbol |-> AllocationSymbols[i], currentValue |-> v[i]]] :
              v \in [1..n -> ValueInputs] } : n \in 0..3 }

\* the timestamps generateTradingDays is called with: Friday 1970-01-02 03:00,
\* Sunday 1970-01-04 22:00, Monday 1970-01-05 00:00 (UTC)
DayStartInputs == {1 * HoursPerDay + 3, 3 * HoursPerDay + 22, 4 * HoursPerDay}
\* Thursday 1970-01-01 12:00, Monday 1970-01-05 00:00, Saturday 1970-01-10
\* 01:00, the clock
DayEndInputs == {12, 4 * HoursPerDay, 9 * HoursPerDay + 1, Now}

\* the dates of the series validateCacheCoverage is called with: up to two
\* dates in any order, and one series of three
CoverDates == {3, 9, 10, 17, 18, 21}
CoverDateLists ==
  {<<>>, <<9, 13, 18>>} \cup {<<a>> : a \in CoverDates}
    \cup {<<a, b>> : a \in CoverDates, b \in CoverDates}
CoverFromInputs == {4, 5}
CoverToInputs == {19, 20}

InitHist ==
  /\ clock \in NowInputs
  /\ tzOffset \in TzInputs
  /\ \/ /\ \E h \in HoldingInputs(clock), c \in CandleInputs, r \in DateRanges :
              calc = [pc |-> "called", holdings |-> h, candlesBySymbol |-> c, range |-> r]
        /\ dayCall = NoDayCall
        /\ coverCall = NoCoverCall
        /\ allocCall = NoAllocCall
     \/ /\ calc = NoCalc
        /\ dayCall = NoDayCall
        /\ coverCall = NoCoverCall
        /\ \E h \in AllocationInputs : allocCall = [pc |-> "called", holdings |-> h]
     \/ /\ calc = NoCalc
        /\ allocCall = NoAllocCall
        /\ \E a \in DayStartInputs, b \in DayEndInputs :
              dayCall = [pc |-> "called", startDate |-> a, endDate |-> b]
        /\ coverCall = NoCoverCall
     \/ /\ calc = NoCalc
        /\ dayCall = NoDayCall
        /\ allocCall = NoAllocCall
        /\ \E ds \in CoverDateLists, f \in CoverFromInputs, t \in CoverToInputs :
              coverCall = [pc |-> "called",
                           candles |-> ToDailyCandles("AAPL", "finnhub", Bars(ds, 10)),
                           fromDate |-> f, toDate |-> t]
  /\ dailyCandles = <<>>
  /\ cacheMeta = {}
  /\ tasks = [t \in TaskIds |-> IdleTask]
  /\ observer = IdleTask
  /\ nPuts = 0
  /\ overlapped = FALSE
  /\ putSets = [pr \in Pairs |-> {}]
  /\ putsDone = [pr \in Pairs |-> 0]
  /\ lastPut = [pr \in Pairs |-> <<>>]
  /\ PortfolioDbEmpty
  /\ WatchDbEmpty
  /\ StoreInitial
  /\ SettingsInitial
  /\ HookIdle

ComputeHistory ==
  /\ calc.pc = "called"
  /\ calc' =
       [pc |-> "returned",
        holdings |-> calc.holdings,
        candlesBySymbol |-> calc.candlesBySymbol,
        range |-> calc.range,
        tradingDays |-> IF calc.holdings = <<>> THEN <<>>
                        ELSE HistoryDays(calc.holdings, calc.range, clock, tzOffset),
        trace |-> HistoryTrace(calc.holdings, calc.candlesBySymbol, calc.range,
                               clock, tzOffset),
        history |-> computePortfolioHistory(calc.holdings, calc.candlesBySymbol,
                                            calc.range, clock, tzOffset)]
  /\ UNCHANGED <<dbVars, cacheVars, clock, tzOffset, dayCall, coverCall, allocCall,
                 hookVars, pfVars, wlVars, uiVars>>

GenerateTradingDays ==
  /\ dayCall.pc = "called"
  /\ dayCall' = [pc |-> "returned",
                 startDate |-> dayCall.startDate,
                 endDate |-> dayCall.endDate,
                 days |-> generateTradingDays(dayCall.startDate, dayCall.endDate,
                                              tzOffset)]
  /\ UNCHANGED <<dbVars, cacheVars, clock, tzOffset, calc, coverCall, allocCall,
                 hookVars, pfVars, wlVars, uiVars>>

ValidateCoverage ==
  /\ coverCall.pc = "called"
  /\ coverCall' = [pc |-> "returned",
                   candles |-> coverCall.candles,
                   fromDate |-> coverCall.fromDate,
                   toDate |-> coverCall.toDate,
                   usable |-> validateCacheCoverage(coverCall.candles,
                                                    coverCall.fromDate,
                                                    coverCall.toDate)]
  /\ UNCHANGED <<dbVars, cacheVars, clock, tzOffset, calc, dayCall, allocCall,
                 hookVars, pfVars, wlVars, uiVars>>

ComputeAllocation ==
  /\ allocCall.pc = "called"
  /\ allocCall' = [pc |-> "returned",
                   holdings |-> allocCall.holdings,
                   result |-> computeAllocation(allocCall.holdings)]
  /\ UNCHANGED <<dbVars, cacheVars, clock, tzOffset, calc, dayCall, coverCall,
                 hookVars, pfVars, wlVars, uiVars>>

NextHist ==
  ComputeHistory \/ GenerateTradingDays \/ ValidateCoverage \/ ComputeAllocation

SpecHist == InitHist /\ [][NextHist]_vars

(***************************************************************************)
(* Properties of computePortfolioHistory.                                  *)
(***************************************************************************)
\* the candle list of the symbol has a close for the date
HasPrice(candlesBySymbol, symbol, d) ==
  /\ symbol \in DOMAIN candlesBySymbol
  /\ \E i \in 1..Len(candlesBySymbol[symbol]) : candlesBySymbol[symbol][i].date = d

\* the calendar day of a holding's addedAt
AddedDay(h) == FormatDateString(h.addedAt)

\* C9: for every trading day d of the window and every holding h, h adds to
\* d's value only if its addedAt day is not after d, and it does add to d's
\* value when its addedAt day is not after d and its symbol has a price for d;
\* in particular a holding added today adds to today's point.
C9_TemporalInclusion ==
  calc.pc = "returned" =>
    \A j \in 1..Len(calc.trace), k \in 1..Len(calc.holdings) :
      LET d == calc.trace[j].date
          h == calc.holdings[k]
      IN /\ k \in calc.trace[j].used => AddedDay(h) <= d
         /\ (AddedDay(h) <= d /\ HasPrice(calc.candlesBySymbol, h.symbol, d))
              => k \in calc.trace[j].used

\* every symbol of the holding set has a close for every trading day of the window
FullPrices ==
  \A k \in 1..Len(calc.holdings), j \in 1..Len(calc.tradingDays) :
     HasPrice(calc.candlesBySymbol, calc.holdings[k].symbol, calc.tradingDays[j])

\* the sum of shares times close on day d over the holdings k.. whose addedAt
\* day is not after d
RECURSIVE ActiveValue(_, _, _, _)
ActiveValue(holdings, candlesBySymbol, d, k) ==
  IF k > Len(holdings) THEN 0
  ELSE LET h == holdings[k]
       IN (IF AddedDay(h) <= d
           THEN h.shares * PriceMapOf(candlesBySymbol[h.symbol])[d] ELSE 0)
          + ActiveValue(holdings, candlesBySymbol, d, k + 1)

\* C10: when every symbol of the holding set has a close for every trading day
\* of the window, the returned series has exactly one point per trading day of
\* the window, in ascending date order, and the value of each point is the sum
\* of shares times close over the holdings active on that day.
C10_RoundTrip ==
  (calc.pc = "returned" /\ calc.holdings # <<>> /\ FullPrices) =>
    /\ Len(calc.history) = Len(calc.tradingDays)
    /\ \A j \in 1..Len(calc.history) :
         /\ calc.history[j].date = calc.tradingDays[j]
         /\ j > 1 => calc.history[j - 1].date < calc.history[j].date
         /\ calc.history[j].value =
              ActiveValue(calc.holdings, calc.candlesBySymbol, calc.tradingDays[j], 1)

(***************************************************************************)
(* usePortfolioHistory: fetchHistoricalData.  An invocation is a record;   *)
(* its pc names the await it is suspended at.  Each action is the          *)
(* resolution of that await followed by the synchronous code up to the     *)
(* next await or to the return.                                            *)
(***************************************************************************)
NoProvider == "none"
ProviderInputs == {NoProvider, "finnhub"}
RangeInputs == {"1W", "ALL"}
StartInputs == {<<>>, <<HoldingA>>, <<HoldingA, HoldingM>>}
\* what provider.getHistoricalData can resolve to: no_data, or daily bars
FetchInputs == {<<>>} \cup OhlcInputs
CacheReadError == "cache read failed"

\* [...new Set(holdings.map(h => h.symbol))]
RECURSIVE UniqueFrom(_, _, _)
UniqueFrom(holdings, k, acc) ==
  IF k > Len(holdings) THEN acc
  ELSE UniqueFrom(holdings, k + 1,
                  IF holdings[k].symbol \in Range(acc) THEN acc
                  ELSE Append(acc, holdings[k].symbol))
UniqueSymbols(holdings) == UniqueFrom(holdings, 1, <<>>)

InFlight(i) == inv[i].pc \notin {"idle", "done"}
SymbolOf(r) == r.symbols[r.idx]

\* the catch of a symbol's fetch, without the push: the failure is dropped
CatchFetchErrorDropped(r) == r
\* catch (fetchError): failed.push(symbol)
CatchFetchError(r) == [r EXCEPT !.failed = Append(@, SymbolOf(r))]

\* a store that keeps nothing for a symbol that failed
StoreCandlesUnlessFailed(r) ==
  IF r.candles # <<>> /\ SymbolOf(r) \notin Range(r.failed)
  THEN [r EXCEPT !.candlesBySymbol = (SymbolOf(r) :> r.candles) @@ @]
  ELSE r

\* if (candles.length > 0) candlesBySymbol.set(symbol, candles)
StoreCandles(r) ==
  IF r.candles # <<>>
  THEN [r EXCEPT !.candlesBySymbol = (SymbolOf(r) :> r.candles) @@ @]
  ELSE r

\* return from a superseded invocation: nothing is published
ReturnSuperseded(i, r) ==
  /\ inv' = [inv EXCEPT ![i] = [r EXCEPT !.pc = "done", !.outcome = "aborted"]]
  /\ UNCHANGED <<published, lastWriter>>

\* a commit whose finally block leaves isLoading as it is
CommitKeepsLoading(i, r) ==
  /\ failedSymbols' = IF r.failed # <<>> THEN r.failed ELSE failedSymbols
  /\ data' = computePortfolioHistory(r.holdings, r.candlesBySymbol, r.range,
                                     clock, tzOffset)
  /\ error' = NoError
  /\ isLoading' = isLoading
  /\ lastWriter' = i
  /\ inv' = [inv EXCEPT ![i] = [r EXCEPT !.pc = "done", !.outcome = "committed"]]

\* the final commit, and the finally block of the invocation that is current
Commit(i, r) ==
  /\ failedSymbols' = IF r.failed # <<>> THEN r.failed ELSE failedSymbols
  /\ data' = computePortfolioHistory(r.holdings, r.candlesBySymbol, r.range,
                                     clock, tzOffset)
  /\ error' = NoError
  /\ isLoading' = FALSE
  /\ lastWriter' = i
  /\ inv' = [inv EXCEPT ![i] = [r EXCEPT !.pc = "done", !.outcome = "committed"]]

\* the end of one symbol's iteration, then the check at the top of the next
\* iteration or the check before the commit
Continue(i, r0) ==
  LET r == StoreCandles(r0)
  IN IF r.currentFetchId # fetchIdRef THEN ReturnSuperseded(i, r)
     ELSE IF r.idx < Len(r.symbols)
     THEN /\ inv' = [inv EXCEPT ![i] =
                       [r EXCEPT !.pc = "cacheRead", !.idx = @ + 1, !.candles = <<>>,
                                 !.dailyCandles = <<>>]]
          /\ UNCHANGED <<published, lastWriter>>
     ELSE Commit(i, r)

\* fetchHistoricalData(): the code up to the first await
Start(holdings, range, activeProvider) ==
  LET i == nInv + 1
  IN /\ nInv < MaxInv
     /\ nInv' = i
     /\ lastWriter' = i
     /\ IF activeProvider = NoProvider \/ holdings = <<>>
        THEN /\ data' = <<>>
             /\ error' = NoError
             /\ failedSymbols' = <<>>
             /\ inv' = [inv EXCEPT ![i] = [pc |-> "done", outcome |-> "early"]]
             /\ UNCHANGED <<isLoading, fetchIdRef, abortControllerRef, aborted>>
        ELSE /\ aborted' = IF abortControllerRef # 0
                           THEN aborted \cup {abortControllerRef} ELSE aborted
             /\ abortControllerRef' = i
             /\ fetchIdRef' = fetchIdRef + 1
             /\ isLoading' = TRUE
             /\ error' = NoError
             /\ failedSymbols' = <<>>
             /\ data' = data
             /\ inv' = [inv EXCEPT ![i] =
                  [pc |-> "cacheRead",
                   outcome |-> "pending",
                   holdings |-> holdings,
                   range |-> range,
                   activeProvider |-> activeProvider,
                   currentFetchId |-> fetchIdRef + 1,
                   symbols |-> UniqueSymbols(holdings),
                   fromDate |-> FormatDateString(MinAddedAt(holdings)),
                   toDate |-> FormatDateString(clock),
                   idx |-> 1,
                   candles |-> <<>>,
                   dailyCandles |-> <<>>,
                   candlesBySymbol |-> << >>,
                   failed |-> <<>>,
                   \* history: what the cache and the provider answered
                   readOf |-> << >>,
                   fetchedOf |-> << >>,
                   provFailed |-> {},
                   writeFailed |-> {}]]
     /\ UNCHANGED <<dbVars, cacheVars, envVars>>

\* await getCandlesInRange(...) resolves
CacheReadReturns(i) ==
  /\ inv[i].pc = "cacheRead"
  /\ LET r == inv[i]
         candles == getCandlesInRange(dailyCandles, SymbolOf(r), r.activeProvider,
                                      r.fromDate, r.toDate)
         needsFetch == Len(candles) = 0
                       \/ ~validateCacheCoverage(candles, r.fromDate, r.toDate)
         r2 == [r EXCEPT !.candles = candles,
                         !.readOf = (SymbolOf(r) :> candles) @@ @]
     IN IF needsFetch
        THEN /\ inv' = [inv EXCEPT ![i] = [r2 EXCEPT !.pc = "fetch"]]
             /\ UNCHANGED <<published, lastWriter>>
        ELSE Continue(i, r2)
  /\ UNCHANGED <<dbVars, cacheVars, envVars, fetchIdRef, abortControllerRef,
                 nInv, aborted>>

\* await getCandlesInRange(...) rejects: the outer catch and the finally
CacheReadFails(i) ==
  /\ inv[i].pc = "cacheRead"
  /\ inv' = [inv EXCEPT ![i] = [inv[i] EXCEPT !.pc = "done", !.outcome = "failed"]]
  /\ IF inv[i].currentFetchId = fetchIdRef
     THEN /\ error' = CacheReadError
          /\ data' = <<>>
          /\ isLoading' = FALSE
          /\ lastWriter' = i
          /\ UNCHANGED failedSymbols
     ELSE UNCHANGED <<published, lastWriter>>
  /\ UNCHANGED <<dbVars, cacheVars, envVars, fetchIdRef, abortControllerRef,
                 nInv, aborted>>

\* await provider.getHistoricalData(symbol, 'MAX') resolves
ProviderReturns(i, ohlcData) ==
  /\ inv[i].pc = "fetch"
  /\ LET r == inv[i]
         daily == ToDailyCandles(SymbolOf(r), r.activeProvider, ohlcData)
     IN IF Len(daily) > 0
        THEN /\ inv' = [inv EXCEPT ![i] =
                          [r EXCEPT !.pc = "cacheDelete", !.dailyCandles = daily]]
             /\ UNCHANGED <<published, lastWriter>>
        ELSE Continue(i, [r EXCEPT !.candles = daily,
                                   !.fetchedOf = (SymbolOf(r) :> daily) @@ @])
  /\ UNCHANGED <<dbVars, cacheVars, envVars, fetchIdRef, abortControllerRef,
                 nInv, aborted>>

\* await provider.getHistoricalData(symbol, 'MAX') rejects
ProviderFails(i) ==
  /\ inv[i].pc = "fetch"
  /\ Continue(i, [CatchFetchError(inv[i]) EXCEPT !.provFailed = @ \cup {SymbolOf(inv[i])}])
  /\ UNCHANGED <<dbVars, cacheVars, envVars, fetchIdRef, abortControllerRef,
                 nInv, aborted>>

\* cacheCandles: await delete resolves
CacheWriteDelete(i) ==
  /\ inv[i].pc = "cacheDelete"
  /\ dailyCandles' = DeleteCandles(dailyCandles, ToUpperCase(SymbolOf(inv[i])),
                                   inv[i].activeProvider)
  /\ inv' = [inv EXCEPT ![i].pc = "cacheBulkPut"]
  /\ UNCHANGED <<cacheMeta, cacheVars, envVars, fetchIdRef, abortControllerRef,
                 published, nInv, aborted, lastWriter>>

\* cacheCandles: await bulkPut resolves
CacheWriteBulkPut(i) ==
  /\ inv[i].pc = "cacheBulkPut"
  /\ dailyCandles' = BulkPutCandles(dailyCandles, ToUpperCase(SymbolOf(inv[i])),
                                    inv[i].dailyCandles)
  /\ inv' = [inv EXCEPT ![i].pc = "cacheMeta"]
  /\ UNCHANGED <<cacheMeta, cacheVars, envVars, fetchIdRef, abortControllerRef,
                 published, nInv, aborted, lastWriter>>

\* cacheCandles: await cacheMeta.put resolves, cacheCandles returns, and
\* candles = dailyCandles
CacheWriteMeta(i) ==
  /\ inv[i].pc = "cacheMeta"
  /\ LET r == inv[i]
     IN /\ cacheMeta' = PutMeta(cacheMeta, ToUpperCase(SymbolOf(r)), r.activeProvider,
                                Len(r.dailyCandles))
        /\ Continue(i, [r EXCEPT !.candles = r.dailyCandles,
                                 !.fetchedOf = (SymbolOf(r) :> r.dailyCandles) @@ @])
  /\ UNCHANGED <<dailyCandles, cacheVars, envVars, fetchIdRef, abortControllerRef,
                 nInv, aborted>>

\* cacheCandles rejects at the step it is suspended at
CacheWriteFails(i) ==
  /\ inv[i].pc \in {"cacheDelete", "cacheBulkPut", "cacheMeta"}
  /\ Continue(i, [CatchFetchError(inv[i]) EXCEPT !.writeFailed = @ \cup {SymbolOf(inv[i])}])
  /\ UNCHANGED <<dbVars, cacheVars, envVars, fetchIdRef, abortControllerRef,
                 nInv, aborted>>

Init ==
  /\ dailyCandles = <<>>
  /\ cacheMeta = {}
  /\ tasks = [t \in TaskIds |-> IdleTask]
  /\ observer = IdleTask
  /\ nPuts = 0
  /\ overlapped = FALSE
  /\ putSets = [pr \in Pairs |-> {}]
  /\ putsDone = [pr \in Pairs |-> 0]
  /\ lastPut = [pr \in Pairs |-> <<>>]
  /\ EnvFixed
  /\ HookIdle

Next ==
  \/ \E h \in StartInputs, r \in RangeInputs, p \in ProviderInputs : Start(h, r, p)
  \/ \E i \in InvIds : CacheReadReturns(i)
  \/ \E i \in InvIds : CacheReadFails(i)
  \/ \E i \in InvIds, o \in FetchInputs : ProviderReturns(i, o)
  \/ \E i \in InvIds : ProviderFails(i)
  \/ \E i \in InvIds : CacheWriteDelete(i)
  \/ \E i \in InvIds : CacheWriteBulkPut(i)
  \/ \E i \in InvIds : CacheWriteMeta(i)
  \/ \E i \in InvIds : CacheWriteFails(i)

Spec == Init /\ [][Next]_vars

(***************************************************************************)
(* Properties of fetchHistoricalData.                                      *)
(***************************************************************************)
\* C1: once a later invocation has started, no earlier invocation writes data,
\* failedSymbols or error: the last write to them is always by the most
\* recently started invocation.
C1_Supersession == lastWriter = nInv

\* the generation ids captured so far, by invocation
Captured(i) == inv[i].pc # "idle" /\ inv[i].outcome # "early"

\* C2: every invocation increments the generation id, so the id counts the
\* invocations started, and the id an invocation captured is greater than
\* the id captured by every earlier one.
C2_EveryInvocationIncrements ==
  /\ fetchIdRef = nInv
  /\ \A i, j \in InvIds :
       (i < j /\ Captured(i) /\ Captured(j))
          => inv[i].currentFetchId < inv[j].currentFetchId

\* an invocation that reached its final commit, and whose write is the last
Committed(i) ==
  /\ inv[i].pc = "done"
  /\ inv[i].outcome = "committed"
  /\ lastWriter = i

\* the candle lists keyed by the symbols of f that have a non-empty list
NonEmptyOf(f) ==
  [s \in {t \in DOMAIN f : f[t] # <<>>} |-> f[s]]

\* per symbol, the candles the provider returned when the fetch and the cache
\* write succeeded, and the candles read from the cache otherwise
HeldCandles(r) ==
  NonEmptyOf([s \in Range(r.symbols) |->
     IF s \in r.provFailed \cup r.writeFailed THEN r.readOf[s]
     ELSE IF s \in DOMAIN r.fetchedOf THEN r.fetchedOf[s]
     ELSE r.readOf[s]])

\* the candles of the symbols whose provider call did not fail
SucceededCandles(r) ==
  NonEmptyOf([s \in Range(r.symbols) \ r.provFailed |->
     IF s \in DOMAIN r.fetchedOf THEN r.fetchedOf[s] ELSE r.readOf[s]])

\* C3 (as the code has it): an invocation that reaches its commit has
\* processed every symbol, whichever of them failed; it publishes the series
\* computed from the candles held for each symbol (the fetched candles of a
\* symbol whose fetch and cache write succeeded, the cached candles
\* otherwise), publishes as failedSymbols exactly the symbols whose provider
\* call or cache write failed, in symbol order, and publishes no error.
C3_PartialFailureIsolation ==
  \A i \in InvIds : Committed(i) =>
    LET r == inv[i]
    IN /\ DOMAIN r.readOf = Range(r.symbols)
       /\ failedSymbols =
            SelectSeq(r.symbols, LAMBDA s : s \in r.provFailed \cup r.writeFailed)
       /\ data = computePortfolioHistory(r.holdings, HeldCandles(r), r.range,
                                         clock, tzOffset)
       /\ error = NoError

\* an invocation committed after the provider failed for its first symbol and
\* answered for its second one, and the series is not empty
C3_Witness ==
  \E i \in InvIds :
    /\ Committed(i)
    /\ Len(inv[i].symbols) = 2
    /\ inv[i].provFailed = {inv[i].symbols[1]}
    /\ inv[i].symbols[2] \in DOMAIN inv[i].fetchedOf
    /\ failedSymbols = <<inv[i].symbols[1]>>
    /\ data # <<>>

\* C3 as stated: the series is computed from the symbols whose provider call
\* did not fail, and failedSymbols is exactly the symbols whose provider call
\* failed.
C3_AsStated ==
  \A i \in InvIds : Committed(i) =>
    LET r == inv[i]
    IN /\ failedSymbols = SelectSeq(r.symbols, LAMBDA s : s \in r.provFailed)
       /\ data = computePortfolioHistory(r.holdings, SucceededCandles(r), r.range,
                                         clock, tzOffset)
       /\ error = NoError

(***************************************************************************)
(* Forward-fill.                                                           *)
(***************************************************************************)
\* the holding is counted on the day: holding.addedAt > dateTs fails
Counted(h, d) == h.addedAt <= DateOf(d)

\* the close of the symbol on date d
CloseOn(candlesBySymbol, symbol, d) == PriceMapOf(candlesBySymbol[symbol])[d]

\* the greatest element of a non-empty set of integers
MaxOf(S) == CHOOSE x \in S : \A y \in S : y <= x

\* the trading days of the window before the j-th on which the symbol had a
\* close and some holding of the symbol was counted
SeenDays(symbol, j) ==
  { i \in 1..(j - 1) :
      /\ HasPrice(calc.candlesBySymbol, symbol, calc.tradingDays[i])
      /\ \E k \in 1..Len(calc.holdings) :
            /\ calc.holdings[k].symbol = symbol
            /\ Counted(calc.holdings[k], calc.tradingDays[i]) }

\* every date before d on which the symbol has a close, in the window or not
EarlierPriceDates(symbol, d) ==
  IF symbol \in DOMAIN calc.candlesBySymbol
  THEN {c.date : c \in {x \in Range(calc.candlesBySymbol[symbol]) : x.date < d}}
  ELSE {}

\* what holding k adds on the j-th trading day when the carried price is that
\* of the last day of SeenDays
FilledShare(k, j) ==
  LET h == calc.holdings[k]
      d == calc.tradingDays[j]
  IN IF ~Counted(h, d) THEN 0
     ELSE IF HasPrice(calc.candlesBySymbol, h.symbol, d)
     THEN h.shares * CloseOn(calc.candlesBySymbol, h.symbol, d)
     ELSE IF SeenDays(h.symbol, j) # {}
     THEN h.shares * CloseOn(calc.candlesBySymbol, h.symbol,
                             calc.tradingDays[MaxOf(SeenDays(h.symbol, j))])
     ELSE 0

\* what holding k adds on the j-th trading day when the carried price is that
\* of the most recent earlier date with a close
LatestEarlierShare(k, j) ==
  LET h == calc.holdings[k]
      d == calc.tradingDays[j]
  IN IF ~Counted(h, d) THEN 0
     ELSE IF HasPrice(calc.candlesBySymbol, h.symbol, d)
     THEN h.shares * CloseOn(calc.candlesBySymbol, h.symbol, d)
     ELSE IF EarlierPriceDates(h.symbol, d) # {}
     THEN h.shares * CloseOn(calc.candlesBySymbol, h.symbol,
                             MaxOf(EarlierPriceDates(h.symbol, d)))
     ELSE 0

RECURSIVE SumShares(_, _, _)
SumShares(Share(_, _), j, k) ==
  IF k > Len(calc.holdings) THEN 0
  ELSE Share(k, j) + SumShares(Share, j, k + 1)

\* C11 (as the code has it): a holding counted on a trading day that has no
\* close for its symbol is valued at the close of the most recent earlier
\* trading day of the window on which the symbol had a close and a holding of
\* the symbol was counted, if there is one, and adds nothing otherwise; a later
\* day's close is never used.
C11_ForwardFill ==
  calc.pc = "returned" =>
    \A j \in 1..Len(calc.trace) :
      calc.trace[j].value = SumShares(FilledShare, j, 1)

\* closes on day 1 and day 5 of the five trading days Monday to Friday: days 2
\* to 4 are valued at day 1's close
C11_Witness ==
  /\ calc.pc = "returned"
  /\ calc.holdings = <<HoldingA>>
  /\ Len(calc.trace) >= 5
  /\ [j \in 1..5 |-> calc.trace[j].date] = <<4, 5, 6, 7, 8>>
  /\ HasPrice(calc.candlesBySymbol, "AAPL", 4)
  /\ HasPrice(calc.candlesBySymbol, "AAPL", 8)
  /\ \A d \in {5, 6, 7} : ~HasPrice(calc.candlesBySymbol, "AAPL", d)
  /\ \A j \in 2..4 :
       calc.trace[j].value = 2 * CloseOn(calc.candlesBySymbol, "AAPL", 4)
  /\ calc.trace[5].value = 2 * CloseOn(calc.candlesBySymbol, "AAPL", 8)

\* C11 as stated: the carried price is the close of the most recent earlier
\* day for which the symbol had a price.
C11_AsStated ==
  calc.pc = "returned" =>
    \A j \in 1..Len(calc.trace) :
      calc.trace[j].value = SumShares(LatestEarlierShare, j, 1)

(***************************************************************************)
(* Emission of points.                                                     *)
(***************************************************************************)
\* the points of the returned series dated d
PointsOn(d) == {i \in 1..Len(calc.history) : calc.history[i].date = d}

\* C12: a trading day of the window has a point in the returned series if and
\* only if the summed value of the day is strictly positive, and then exactly
\* one point, carrying that value; a day on which no holding has a resolvable
\* price has no point; a holding whose symbol has no price data adds nothing on
\* any day and the days on which other holdings have a value are still emitted.
C12_EmitIffPositive ==
  calc.pc = "returned" =>
    /\ \A i \in 1..Len(calc.history) :
         \E j \in 1..Len(calc.tradingDays) : calc.history[i].date = calc.tradingDays[j]
    /\ \A j \in 1..Len(calc.tradingDays) :
         LET d == calc.tradingDays[j]
             v == SumShares(FilledShare, j, 1)
         IN /\ (PointsOn(d) # {}) <=> (v > 0)
            /\ \A i \in PointsOn(d) : calc.history[i].value = v /\ PointsOn(d) = {i}
            /\ \A k \in 1..Len(calc.holdings) :
                 calc.holdings[k].symbol \notin DOMAIN calc.candlesBySymbol
                    => k \notin calc.trace[j].used

\* MSFT has no price data, AAPL has: a day without any resolvable price is
\* left out and the days valued through AAPL are emitted
C12_Witness ==
  /\ calc.pc = "returned"
  /\ calc.holdings = <<HoldingA, HoldingM>>
  /\ DOMAIN calc.candlesBySymbol = {"AAPL"}
  /\ \E j \in 1..Len(calc.trace) :
        calc.trace[j].value = 0 /\ PointsOn(calc.trace[j].date) = {}
  /\ \E j \in 1..Len(calc.trace) :
        /\ Counted(HoldingM, calc.trace[j].date)
        /\ calc.trace[j].used = {1}
        /\ PointsOn(calc.trace[j].date) # {}

(***************************************************************************)
(* Properties of generateTradingDays.                                      *)
(***************************************************************************)
\* the day of the week of a calendar date, 0 = Sunday .. 6 = Saturday
WeekdayOf(d) == (d + 4) % 7

\* the calendar days from the local day of the start to the local day of the end
CalendarDays(startDate, endDate, tz) ==
  IF LocalDay(endDate, tz) < LocalDay(startDate, tz) THEN 0
  ELSE LocalDay(endDate, tz) - LocalDay(startDate, tz) + 1

\* C13: no date returned by generateTradingDays is a Saturday or a Sunday,
\* and it returns no more dates than the interval has calendar days.
C13_NoWeekends ==
  dayCall.pc = "returned" =>
    /\ \A j \in 1..Len(dayCall.days) : WeekdayOf(dayCall.days[j]) \notin {0, 6}
    /\ Len(dayCall.days) <= CalendarDays(dayCall.startDate, dayCall.endDate, tzOffset)

(***************************************************************************)
(* Properties of validateCacheCoverage.                                    *)
(***************************************************************************)
MinOf(S) == CHOOSE x \in S : \A y \in S : x <= y

\* C14: validateCacheCoverage rejects an empty series, rejects a series whose
\* earliest date is more than 5 days after fromDate, rejects a series whose
\* latest date is more than 2 days before toDate, and accepts every other
\* series, whatever dates lie between its earliest and its latest.
C14_CoverageThresholds ==
  coverCall.pc = "returned" =>
    LET dates == DatesOf(coverCall.candles)
    IN coverCall.usable <=>
         /\ coverCall.candles # <<>>
         /\ MinOf(dates) - coverCall.fromDate <= 5
         /\ coverCall.toDate - MaxOf(dates) <= 2

\* a series starting exactly 5 days after fromDate and ending exactly 2 days
\* before toDate, with a gap of more than a week inside, is accepted
C14_Witness ==
  /\ coverCall.pc = "returned"
  /\ coverCall.usable
  /\ DatesOf(coverCall.candles) = {9, 18}
  /\ coverCall.fromDate = 4
  /\ coverCall.toDate = 20

(***************************************************************************)
(* The portfolio tables: createPortfolio, deletePortfolio, addHolding.     *)
(* avgCost is a JavaScript number; it is kept here as the exact fraction   *)
(* <<numerator, denominator>> in lowest terms.                             *)
(***************************************************************************)
RECURSIVE Gcd(_, _)
Gcd(a, b) == IF b = 0 THEN a ELSE Gcd(b, a % b)
Frac(n, d) == <<n \div Gcd(n, d), d \div Gcd(n, d)>>
\* a / b for an integer numerator sum n1/d1 + n2/d2 and a divisor k
FracAdd(x, y) == Frac(x[1] * y[2] + y[1] * x[2], x[2] * y[2])
FracTimes(k, x) == Frac(k * x[1], x[2])
FracOver(x, k) == Frac(x[1], x[2] * k)

\* the arguments of addHolding: a lot is <<shares, avgCost>>; addedAt is the
\* set holding the optional argument, empty when it is omitted
LotInputs == {<<10, 100>>, <<10, 200>>}
AddedAtInputs == {{}, {0}, {5 * HoursPerDay}}
TheOne(S) == CHOOSE x \in S : TRUE
\* addedAt && ... : undefined and 0 are falsy
Truthy(addedAt) == addedAt # {} /\ addedAt # {0}

AddInFlight(k) == addTasks[k].pc \notin {"idle", "done"}

\* db.portfolios.add({name, createdAt: Date.now()})
CreatePortfolio ==
  /\ nextPortfolioId <= MaxPortfolios
  /\ portfolioRows' = portfolioRows \cup
        {[id |-> nextPortfolioId, name |-> "portfolio", createdAt |-> clock]}
  /\ nextPortfolioId' = nextPortfolioId + 1
  /\ UNCHANGED <<holdingRows, nextHoldingId, addTasks, nAdds, additions,
                 addsOverlapped>>
  /\ UNCHANGED <<dbVars, cacheVars, clock, tzOffset, callVars,
                 hookVars, wlVars, uiVars>>

\* a delete that removes no row
DeleteHoldingRowsSkipped(rows, id) == rows
\* db.holdings.where('portfolioId').equals(id).delete()
DeleteHoldingRows(rows, id) == {h \in rows : h.portfolioId # id}

\* deletePortfolio(id): both deletes in one 'rw' transaction on the two tables
DeletePortfolio(id) ==
  /\ \E p \in portfolioRows : p.id = id
  /\ holdingRows' = DeleteHoldingRows(holdingRows, id)
  /\ portfolioRows' = {p \in portfolioRows : p.id # id}
  /\ UNCHANGED <<nextPortfolioId, nextHoldingId, addTasks, nAdds, additions,
                 addsOverlapped>>
  /\ UNCHANGED <<dbVars, cacheVars, clock, tzOffset, callVars,
                 hookVars, wlVars, uiVars>>

\* addHolding(portfolioId, symbol, shares, avgCost, addedAt?): up to the first await
AddHoldingCall(portfolioId, symbol, lot, addedAt) ==
  LET k == nAdds + 1
  IN /\ nAdds < MaxAdds
     /\ portfolioId < nextPortfolioId
     /\ nAdds' = k
     /\ addTasks' = [addTasks EXCEPT ![k] =
          [pc |-> "find", portfolioId |-> portfolioId, symbol |-> symbol,
           shares |-> lot[1], avgCost |-> Frac(lot[2], 1), addedAt |-> addedAt]]
     /\ additions' = additions \cup
          {[call |-> k, portfolioId |-> portfolioId, symbol |-> ToUpperCase(symbol),
            shares |-> lot[1], avgCost |-> lot[2],
            addedAt |-> IF addedAt = {} THEN clock ELSE TheOne(addedAt)]}
     /\ addsOverlapped' = (addsOverlapped \/ \E u \in AddIds : AddInFlight(u))
     /\ UNCHANGED pfTables
     /\ UNCHANGED <<dbVars, cacheVars, clock, tzOffset, callVars,
                    hookVars, wlVars, uiVars>>

\* where('portfolioId').equals(portfolioId).and(h => h.symbol === upper)
MatchingHoldings(rows, portfolioId, symbol) ==
  {h \in rows : h.portfolioId = portfolioId /\ h.symbol = ToUpperCase(symbol)}

\* await ... .first() resolves
AddHoldingFind(k) ==
  /\ addTasks[k].pc = "find"
  /\ LET t == addTasks[k]
         found == MatchingHoldings(holdingRows, t.portfolioId, t.symbol)
     IN IF found # {}
        THEN LET existing == CHOOSE h \in found : \A g \in found : h.id <= g.id
                 totalShares == existing.shares + t.shares
                 totalCost == FracAdd(FracTimes(existing.shares, existing.avgCost),
                                      FracTimes(t.shares, t.avgCost))
                 earlierDate == IF Truthy(t.addedAt)
                                   /\ TheOne(t.addedAt) < existing.addedAt
                                THEN TheOne(t.addedAt) ELSE existing.addedAt
             IN addTasks' = [addTasks EXCEPT ![k] =
                  [pc |-> "update", id |-> existing.id, shares |-> totalShares,
                   avgCost |-> FracOver(totalCost, totalShares),
                   addedAt |-> earlierDate]]
        ELSE addTasks' = [addTasks EXCEPT ![k] =
                  [pc |-> "add", portfolioId |-> t.portfolioId,
                   symbol |-> ToUpperCase(t.symbol), shares |-> t.shares,
                   avgCost |-> t.avgCost,
                   addedAt |-> IF t.addedAt = {} THEN clock ELSE TheOne(t.addedAt)]]
  /\ UNCHANGED <<pfTables, nAdds, additions, addsOverlapped>>
  /\ UNCHANGED <<dbVars, cacheVars, clock, tzOffset, callVars,
                 hookVars, wlVars, uiVars>>

\* await db.holdings.update(existing.id, {...}) resolves; a row that is gone
\* is not updated
AddHoldingUpdate(k) ==
  /\ addTasks[k].pc = "update"
  /\ LET t == addTasks[k]
     IN holdingRows' =
          {IF h.id = t.id
           THEN [h EXCEPT !.shares = t.shares, !.avgCost = t.avgCost,
                          !.addedAt = t.addedAt]
           ELSE h : h \in holdingRows}
  /\ addTasks' = [addTasks EXCEPT ![k] = [pc |-> "done"]]
  /\ UNCHANGED <<portfolioRows, nextPortfolioId, nextHoldingId, nAdds, additions,
                 addsOverlapped>>
  /\ UNCHANGED <<dbVars, cacheVars, clock, tzOffset, callVars,
                 hookVars, wlVars, uiVars>>

\* await db.holdings.add({...}) resolves
AddHoldingAdd(k) ==
  /\ addTasks[k].pc = "add"
  /\ LET t == addTasks[k]
     IN holdingRows' = holdingRows \cup
          {[id |-> nextHoldingId, portfolioId |-> t.portfolioId,
            symbol |-> t.symbol, shares |-> t.shares, avgCost |-> t.avgCost,
            addedAt |-> t.addedAt]}
  /\ nextHoldingId' = nextHoldingId + 1
  /\ addTasks' = [addTasks EXCEPT ![k] = [pc |-> "done"]]
  /\ UNCHANGED <<portfolioRows, nextPortfolioId, nAdds, additions, addsOverlapped>>
  /\ UNCHANGED <<dbVars, cacheVars, clock, tzOffset, callVars,
                 hookVars, wlVars, uiVars>>

InitDb ==
  /\ dailyCandles = <<>>
  /\ cacheMeta = {}
  /\ tasks = [t \in TaskIds |-> IdleTask]
  /\ observer = IdleTask
  /\ nPuts = 0
  /\ overlapped = FALSE
  /\ putSets = [pr \in Pairs |-> {}]
  /\ putsDone = [pr \in Pairs |-> 0]
  /\ lastPut = [pr \in Pairs |-> <<>>]
  /\ EnvFixed
  /\ HookIdle

NextDb ==
  \/ CreatePortfolio
  \/ \E id \in 1..MaxPortfolios : DeletePortfolio(id)
  \/ \E id \in 1..MaxPortfolios, s \in SymbolInputs, l \in LotInputs,
        a \in AddedAtInputs : AddHoldingCall(id, s, l, a)
  \/ \E k \in AddIds : AddHoldingFind(k)
  \/ \E k \in AddIds : AddHoldingUpdate(k)
  \/ \E k \in AddIds : AddHoldingAdd(k)

SpecDb == InitDb /\ [][NextDb]_vars

(***************************************************************************)
(* Properties of addHolding.                                               *)
(***************************************************************************)
\* the shares, and the cost, of a set of additions
RECURSIVE TotalShares(_)
TotalShares(S) ==
  IF S = {} THEN 0
  ELSE LET x == CHOOSE y \in S : TRUE
       IN x.shares + TotalShares(S \ {x})
RECURSIVE TotalCost(_)
TotalCost(S) ==
  IF S = {} THEN 0
  ELSE LET x == CHOOSE y \in S : TRUE
       IN x.shares * x.avgCost + TotalCost(S \ {x})

\* what the addHolding calls added to the portfolio under the symbol
AdditionsOf(portfolioId, symbol) ==
  {a \in additions : a.portfolioId = portfolioId /\ a.symbol = symbol}

NoAddInFlight == \A k \in AddIds : ~AddInFlight(k)
NothingDeleted == \A id \in 1..(nextPortfolioId - 1) : \E p \in portfolioRows : p.id = id

\* C15: after addHolding calls made one after the other, a holding has the
\* summed shares of the additions of its symbol, their share-weighted average
\* cost, and the minimum of their addedAt timestamps.
C15_WeightedMerge ==
  (NoAddInFlight /\ ~addsOverlapped /\ NothingDeleted) =>
    \A h \in holdingRows :
      LET A == AdditionsOf(h.portfolioId, h.symbol)
      IN /\ h.shares = TotalShares(A)
         /\ h.avgCost = Frac(TotalCost(A), TotalShares(A))
         /\ h.addedAt = MinOf({a.addedAt : a \in A})

\* C16: once every addHolding call has returned, whether or not their steps
\* interleaved, a portfolio has at most one holding per symbol, and that
\* holding's shares are the sum of the shares of all additions of the symbol.
C16_OneHoldingPerSymbol ==
  (NoAddInFlight /\ NothingDeleted) =>
    \A id \in 1..MaxPortfolios, symbol \in Symbols :
      LET rows == {h \in holdingRows :
                     h.portfolioId = id /\ ToUpperCase(h.symbol) = symbol}
      IN /\ Cardinality(rows) <= 1
         /\ \A h \in rows : h.shares = TotalShares(AdditionsOf(id, symbol))

(***************************************************************************)
(* Invocation-level failure of fetchHistoricalData.                        *)
(***************************************************************************)
Finished(i, outcome) == inv[i].pc = "done" /\ inv[i].outcome = outcome

\* C17: an invocation that failed as a whole and wrote the published state is
\* the most recently started one, and it left the series empty and the error
\* set; an invocation that committed and wrote the published state is the most
\* recently started one, and it left the error cleared; and while the last
\* write is that of the start of the most recent invocation, the error is
\* cleared.  So no superseded invocation sets the error or the series.
C17_InvocationFailure ==
  /\ \A i \in InvIds :
       (Finished(i, "failed") /\ lastWriter = i)
          => (i = nInv /\ data = <<>> /\ error # NoError)
  /\ \A i \in InvIds :
       (Finished(i, "committed") /\ lastWriter = i)
          => (i = nInv /\ error = NoError)
  /\ \A i \in InvIds :
       (lastWriter = i /\ (InFlight(i) \/ Finished(i, "early")))
          => error = NoError

\* the same, in the behaviours in which no invocation took the early return
C17_WithoutEarlyReturn == (fetchIdRef = nInv) => C17_InvocationFailure

(***************************************************************************)
(* Properties of computeAllocation.                                        *)
(***************************************************************************)
\* the holdings with a positive current value, and the sum of their values
Included(holdings) == SelectSeq(holdings, LAMBDA h : ValueOrZero(h) > 0)
IncludedTotal(holdings) == SumCurrentValues(Included(holdings))

\* the sum of the numerators of percentages over one denominator
RECURSIVE SumNumerators(_)
SumNumerators(result) ==
  IF result = <<>> THEN 0
  ELSE Head(result).percentage[1] + SumNumerators(Tail(result))

\* C18: the result lists exactly the holdings with a positive current value;
\* the percentage of each is 100 times its value over the sum of the listed
\* values, so the percentages add up to 100 when that sum is positive; and the
\* result is empty when that sum is 0.
C18_Allocation ==
  allocCall.pc = "returned" =>
    LET result == allocCall.result
        total == IncludedTotal(allocCall.holdings)
    IN /\ {r.symbol : r \in Range(result)}
            = {h.symbol : h \in Range(Included(allocCall.holdings))}
       /\ Len(result) = Len(Included(allocCall.holdings))
       /\ \A i \in 1..Len(result) :
            result[i].percentage[1] * total
               = 100 * result[i].value * result[i].percentage[2]
       /\ (total > 0 /\ result # <<>>) =>
            SumNumerators(result) = 100 * result[1].percentage[2]
       /\ total = 0 => result = <<>>

\* the same, for holdings without a negative current value
C18_WithoutNegativeValues ==
  (allocCall.pc = "returned"
     /\ \A h \in Range(allocCall.holdings) : ValueOrZero(h) >= 0)
    => C18_Allocation

(***************************************************************************)
(* Properties of deletePortfolio.                                          *)
(***************************************************************************)
\* getPortfolio(id): the rows db.portfolios.get(id) can return
getPortfolio(rows, id) == {p \in rows : p.id = id}
\* getHoldings(portfolioId)
getHoldings(rows, portfolioId) == {h \in rows : h.portfolioId = portfolioId}

\* C19: every step that removes a portfolio removes all of its holdings with
\* it and leaves the other portfolios and their holdings as they were, and
\* no step removes a holding of a portfolio that stays: a read before or after
\* the step never finds the portfolio without its holdings being deleted too,
\* or the reverse.
C19_AtomicDelete ==
  [][\A id \in 1..MaxPortfolios :
       LET gone == getPortfolio(portfolioRows, id) # {}
                     /\ getPortfolio(portfolioRows', id) = {}
           lost == \E h \in getHoldings(holdingRows, id) :
                     \A g \in holdingRows' : g.id # h.id
       IN /\ gone =>
               /\ getHoldings(holdingRows', id) = {}
               /\ holdingRows' = holdingRows \ getHoldings(holdingRows, id)
               /\ portfolioRows' = portfolioRows \ getPortfolio(portfolioRows, id)
          /\ lost => gone]_vars

\* portfolio 1 was deleted after an addHolding call had stored a holding in
\* it, and portfolio 2 still has a holding
C19_Witness ==
  /\ nextPortfolioId > 2
  /\ getPortfolio(portfolioRows, 1) = {}
  /\ getHoldings(holdingRows, 1) = {}
  /\ \E a \in additions : a.portfolioId = 1 /\ addTasks[a.call].pc = "done"
  /\ getPortfolio(portfolioRows, 2) # {}
  /\ getHoldings(holdingRows, 2) # {}

(***************************************************************************)
(* The quotes and watchlist tables.  quotes has the primary key symbol: a  *)
(* put replaces the row of the same symbol.  watchlist has an              *)
(* auto-incremented id and plain indexes on symbol and addedAt.  Each      *)
(* await is its own transaction.                                           *)
(***************************************************************************)
\* QUOTE_CACHE_TTL = 5 * 60 * 1000 ms, against timestamps in hours
QuoteCacheTtlMinutes == 5
MinutesPerHour == 60

\* getCachedQuote(symbol) at the time now: the row it returns, if any
getCachedQuote(rows, symbol, t) ==
  {q \in rows : /\ q.symbol = ToUpperCase(symbol)
                /\ (t - q.lastUpdated) * MinutesPerHour < QuoteCacheTtlMinutes}

\* cacheQuote(quote)
CacheQuote(quote) ==
  /\ quotes' = {q \in quotes : q.symbol # ToUpperCase(quote.symbol)}
                 \cup {[quote EXCEPT !.symbol = ToUpperCase(quote.symbol)]}
  /\ UNCHANGED <<watchlist, nextWatchId, watchTasks, nWatch>>
  /\ UNCHANGED <<dbVars, cacheVars, clock, tzOffset, callVars, pfVars, hookVars, uiVars>>

\* the quotes cacheQuote is called with: fetched now or an hour ago
QuoteInputs ==
  {[symbol |-> s, provider |-> "finnhub", price |-> 100, lastUpdated |-> u] :
     s \in SymbolInputs, u \in {Now, Now - 1}}

\* db.watchlist.where('symbol').equals(symbol.toUpperCase())
WatchlistOf(rows, symbol) == {w \in rows : w.symbol = ToUpperCase(symbol)}

\* isInWatchlist(symbol)
isInWatchlist(rows, symbol) == Cardinality(WatchlistOf(rows, symbol)) > 0

\* addToWatchlist(symbol): up to the first await
AddToWatchlistCall(symbol) ==
  /\ nWatch < MaxWatch
  /\ nWatch' = nWatch + 1
  /\ watchTasks' = [watchTasks EXCEPT ![nWatch + 1] = [pc |-> "find", symbol |-> symbol]]
  /\ UNCHANGED <<quotes, watchlist, nextWatchId>>
  /\ UNCHANGED <<dbVars, cacheVars, clock, tzOffset, callVars, pfVars, hookVars, uiVars>>

\* await ... .first() resolves: an existing item's id is returned
AddToWatchlistFind(k) ==
  /\ watchTasks[k].pc = "find"
  /\ LET t == watchTasks[k]
         found == WatchlistOf(watchlist, t.symbol)
     IN IF found # {}
        THEN watchTasks' = [watchTasks EXCEPT ![k] =
               [pc |-> "done", symbol |-> t.symbol,
                id |-> (CHOOSE w \in found : \A v \in found : w.id <= v.id).id]]
        ELSE watchTasks' = [watchTasks EXCEPT ![k] = [pc |-> "add", symbol |-> t.symbol]]
  /\ UNCHANGED <<quotes, watchlist, nextWatchId, nWatch>>
  /\ UNCHANGED <<dbVars, cacheVars, clock, tzOffset, callVars, pfVars, hookVars, uiVars>>

\* await db.watchlist.add({symbol: symbol.toUpperCase(), addedAt}) resolves
AddToWatchlistAdd(k) ==
  /\ watchTasks[k].pc = "add"
  /\ watchlist' = watchlist \cup
        {[id |-> nextWatchId, symbol |-> ToUpperCase(watchTasks[k].symbol),
          addedAt |-> clock]}
  /\ nextWatchId' = nextWatchId + 1
  /\ watchTasks' = [watchTasks EXCEPT ![k] =
        [pc |-> "done", symbol |-> watchTasks[k].symbol, id |-> nextWatchId]]
  /\ UNCHANGED <<quotes, nWatch>>
  /\ UNCHANGED <<dbVars, cacheVars, clock, tzOffset, callVars, pfVars, hookVars, uiVars>>

\* removeFromWatchlist(symbol)
RemoveFromWatchlist(symbol) ==
  /\ watchlist' = watchlist \ WatchlistOf(watchlist, symbol)
  /\ UNCHANGED <<quotes, nextWatchId, watchTasks, nWatch>>
  /\ UNCHANGED <<dbVars, cacheVars, clock, tzOffset, callVars, pfVars, hookVars, uiVars>>

(***************************************************************************)
(* The writers of the five tables together: cacheCandles, addHolding (on   *)
(* a created portfolio), addToWatchlist, removeFromWatchlist and           *)
(* cacheQuote, called with symbols in either case, their awaited steps     *)
(* interleaved.                                                            *)
(***************************************************************************)
\* bound on the cacheCandles, addHolding and addToWatchlist calls issued in
\* one behaviour of SpecSymbols
MaxCalls == 3
CallsMade == nPuts + nAdds + nWatch

NextSymbols ==
  \/ /\ nextPortfolioId = 1
     /\ CreatePortfolio
  \/ /\ CallsMade < MaxCalls
     /\ \E s \in SymbolInputs :
          CacheCandlesCall(s, "finnhub", ToDailyCandles(s, "finnhub", OhlcA))
  \/ \E t \in TaskIds : CacheCandlesDelete(t)
  \/ \E t \in TaskIds : CacheCandlesBulkPut(t)
  \/ \E t \in TaskIds : CacheCandlesMeta(t)
  \/ /\ CallsMade < MaxCalls
     /\ \E s \in SymbolInputs : AddHoldingCall(1, s, <<10, 100>>, {})
  \/ \E k \in AddIds : AddHoldingFind(k)
  \/ \E k \in AddIds : AddHoldingUpdate(k)
  \/ \E k \in AddIds : AddHoldingAdd(k)
  \/ /\ CallsMade < MaxCalls
     /\ \E s \in SymbolInputs : AddToWatchlistCall(s)
  \/ \E k \in WatchIds : AddToWatchlistFind(k)
  \/ \E k \in WatchIds : AddToWatchlistAdd(k)
  \/ \E s \in SymbolInputs : RemoveFromWatchlist(s)
  \/ \E q \in QuoteInputs : CacheQuote(q)

SpecSymbols == InitDb /\ [][NextSymbols]_vars

(***************************************************************************)
(* Properties of the symbol case.                                          *)
(***************************************************************************)
\* the upper-case symbols, and the pairs of a symbol in lower and upper case
UpperCaseSymbols == {"AAPL", "MSFT"}
CaseVariants == {<<"aapl", "AAPL">>, <<"msft", "MSFT">>}

\* C20: every stored holding, watchlist item, quote, price point and metadata
\* row has an upper-case symbol, and isInWatchlist, getCandlesInRange and
\* getCachedQuote return the same for a symbol in lower and in upper case.
C20_CanonicalSymbols ==
  /\ \A h \in holdingRows : h.symbol \in UpperCaseSymbols
  /\ \A w \in watchlist : w.symbol \in UpperCaseSymbols
  /\ \A q \in quotes : q.symbol \in UpperCaseSymbols
  /\ \A i \in 1..Len(dailyCandles) : dailyCandles[i].symbol \in UpperCaseSymbols
  /\ \A m \in cacheMeta : m.symbol \in UpperCaseSymbols
  /\ \A v \in CaseVariants :
       /\ isInWatchlist(watchlist, v[1]) = isInWatchlist(watchlist, v[2])
       /\ getCachedQuote(quotes, v[1], clock) = getCachedQuote(quotes, v[2], clock)
       /\ \A p \in Providers, w \in WindowInputs :
            getCandlesInRange(dailyCandles, v[1], p, w[1], w[2])
               = getCandlesInRange(dailyCandles, v[2], p, w[1], w[2])

\* addToWatchlist("aapl") has returned and its item is found under "AAPL";
\* a holding, a fresh quote, price points and a metadata row of AAPL are
\* stored and found under "aapl"
C20_Witness ==
  /\ \E k \in WatchIds :
       /\ watchTasks[k].pc = "done"
       /\ watchTasks[k].symbol = "aapl"
       /\ \E w \in watchlist : w.id = watchTasks[k].id
  /\ isInWatchlist(watchlist, "AAPL")
  /\ getCachedQuote(quotes, "aapl", clock) # {}
  /\ getCandlesInRange(dailyCandles, "aapl", "finnhub", 8, 13) # <<>>
  /\ \E m \in cacheMeta : m.symbol = "AAPL"
  /\ MatchingHoldings(holdingRows, 1, "aapl") # {}

(***************************************************************************)
(* Properties of the watchlist.                                            *)
(***************************************************************************)
\* C21: no two watchlist items have the same symbol.
C21_NoDuplicateSymbols ==
  \A w \in watchlist, v \in watchlist : w.symbol = v.symbol => w.id = v.id

(***************************************************************************)
(* Abort on supersession.                                                  *)
(***************************************************************************)
\* a step of an invocation that is in flight and after which a later
\* invocation has started: it stays with the symbol it is processing, does
\* not commit, and publishes nothing
AbortsWhenSuperseded(i) ==
  (InFlight(i) /\ i < nInv /\ inv'[i] # inv[i]) =>
     /\ inv'[i].idx = inv[i].idx
     /\ inv'[i].outcome # "committed"
     /\ published' = published

\* C22: a superseded invocation begins no step for a later symbol, does not
\* reach the final commit and publishes nothing.
C22_AbortOnSupersession == [][\A i \in InvIds : AbortsWhenSuperseded(i)]_vars

\* the same, in the behaviours in which no invocation took the early return
C22_WithoutEarlyReturn ==
  [][fetchIdRef = nInv => \A i \in InvIds : AbortsWhenSuperseded(i)]_vars

(***************************************************************************)
(* The per-symbol cache protocol of fetchHistoricalData.                   *)
(***************************************************************************)
\* a cached series that is empty, starts more than 5 days after fromDate or
\* ends more than 2 days before toDate
Unusable(candles, fromDate, toDate) ==
  \/ candles = <<>>
  \/ MinOf(DatesOf(candles)) - fromDate > 5
  \/ toDate - MaxOf(DatesOf(candles)) > 2

\* the symbol's iteration ends in the step: the invocation goes on to the
\* next symbol or finishes
LeavesSymbol(i) ==
  inv'[i].pc = "done" \/ inv'[i].idx # inv[i].idx

\* one step of invocation i, by the await it was suspended at
ProtocolStep(i) ==
  LET r == inv[i]
      q == inv'[i]
      s == SymbolOf(r)
      S == ToUpperCase(s)
  IN /\ r.pc = "cacheRead" /\ q.outcome # "failed" =>
          \* the provider is called iff the cached series is unusable
          /\ q.readOf[s] = getCandlesInRange(dailyCandles, s, r.activeProvider,
                                             r.fromDate, r.toDate)
          /\ (q.pc = "fetch" /\ q.idx = r.idx)
               <=> Unusable(q.readOf[s], r.fromDate, r.toDate)
     /\ q.pc = "fetch" => r.pc = "cacheRead"
     /\ r.pc = "fetch" =>
          \* a fetched series that is not empty is put at once
          \/ /\ q.pc = "cacheDelete" /\ q.idx = r.idx
             /\ q.dailyCandles # <<>>
          \/ /\ LeavesSymbol(i)
             /\ \/ s \in q.provFailed
                \/ s \in DOMAIN q.fetchedOf /\ q.fetchedOf[s] = <<>>
     /\ r.pc = "cacheDelete" =>
          \/ /\ q.pc = "cacheBulkPut" /\ q.idx = r.idx
             /\ CandlesOf(dailyCandles', S, r.activeProvider) = <<>>
          \/ LeavesSymbol(i) /\ s \in q.writeFailed
     /\ r.pc = "cacheBulkPut" =>
          \/ /\ q.pc = "cacheMeta" /\ q.idx = r.idx
             /\ Range(r.dailyCandles)
                  \subseteq Range(CandlesOf(dailyCandles', S, r.activeProvider))
          \/ LeavesSymbol(i) /\ s \in q.writeFailed
     /\ r.pc = "cacheMeta" =>
          /\ LeavesSymbol(i)
          /\ \/ /\ [symbol |-> S, provider |-> r.activeProvider,
                     candleCount |-> Len(r.dailyCandles)] \in cacheMeta'
                /\ s \in DOMAIN q.fetchedOf
                /\ q.fetchedOf[s] = r.dailyCandles
                /\ s \notin q.writeFailed \ r.writeFailed
             \/ s \in q.writeFailed

\* C23: the provider is called for a symbol if and only if the series read
\* from the cache for the window is empty or rejected by the coverage
\* validator; when the provider returns a series that is not empty, the put
\* (delete of the pair's points, insert of the fetched points, metadata row)
\* runs before the invocation leaves the symbol, unless the put fails; an
\* empty fetched series is not put.
C23_CacheProtocol ==
  [][\A i \in InvIds : (InFlight(i) /\ inv'[i] # inv[i]) => ProtocolStep(i)]_vars

\* an invocation has put the series fetched for a symbol whose cached series
\* was not empty but rejected, and has gone on
C23_Witness ==
  \E i \in InvIds :
    /\ inv[i].pc \in {"cacheRead", "done"}
    /\ inv[i].outcome # "early"
    /\ \E s \in DOMAIN inv[i].fetchedOf :
         /\ inv[i].fetchedOf[s] # <<>>
         /\ inv[i].readOf[s] # <<>>
         /\ s \notin inv[i].writeFailed
         /\ CandlesOf(dailyCandles, ToUpperCase(s), inv[i].activeProvider) # <<>>

\* C23 as stated: whenever the provider call succeeds, the put of the fetched
\* series begins.
C23_AsStated ==
  [][\A i \in InvIds :
       (InFlight(i) /\ inv[i].pc = "fetch" /\ inv'[i] # inv[i]
          /\ SymbolOf(inv[i]) \notin inv'[i].provFailed)
         => inv'[i].pc = "cacheDelete"]_vars

(***************************************************************************)
(* Order and endpoints of generateTradingDays.                             *)
(***************************************************************************)
\* C24: the dates generateTradingDays returns are strictly ascending, each
\* lies between the day of the start and the day of the end, the day of the
\* start and the day of the end are returned when they are weekdays and the
\* start is not after the end, and nothing is returned when the day of the
\* start is after the day of the end.  The days are those of the local
\* calendar, in which the function counts.
C24_AscendingInclusive ==
  dayCall.pc = "returned" =>
    LET days == dayCall.days
        first == LocalDay(dayCall.startDate, tzOffset)
        last == LocalDay(dayCall.endDate, tzOffset)
    IN /\ \A j \in 2..Len(days) : days[j - 1] < days[j]
       /\ \A j \in 1..Len(days) : first <= days[j] /\ days[j] <= last
       /\ (first <= last /\ WeekdayOf(first) \notin {0, 6}) => first \in Range(days)
       /\ (first <= last /\ WeekdayOf(last) \notin {0, 6}) => last \in Range(days)
       /\ first > last => days = <<>>

\* the same, in the time zones that are not east of UTC
C24_NotEastOfUtc == tzOffset <= 0 => C24_AscendingInclusive

(***************************************************************************)
(* The loading flag.  A pending await of an invocation is resolved or      *)
(* rejected in the end, and its continuation then runs: the steps of each  *)
(* invocation are weakly fair.  Resume(i) is enabled exactly while the     *)
(* invocation is in flight, so WF_vars(Resume(i)) is written with          *)
(* InFlight(i) for ENABLED <<Resume(i)>>_vars.                             *)
(***************************************************************************)
\* the continuation of invocation i after the await it is suspended at
Resume(i) ==
  \/ CacheReadReturns(i)
  \/ CacheReadFails(i)
  \/ \E o \in FetchInputs : ProviderReturns(i, o)
  \/ ProviderFails(i)
  \/ CacheWriteDelete(i)
  \/ CacheWriteBulkPut(i)
  \/ CacheWriteMeta(i)
  \/ CacheWriteFails(i)

ResumeFair(i) == ([]<>(~InFlight(i))) \/ ([]<><<Resume(i)>>_vars)

SpecFair == Init /\ [][Next]_vars /\ \A i \in InvIds : ResumeFair(i)

NoneInFlight == \A i \in InvIds : ~InFlight(i)

\* C25: while no invocation is in flight isLoading is false, and in the end
\* isLoading is false for good.
C25_LoadingQuiescence ==
  /\ [](NoneInFlight => isLoading = FALSE)
  /\ <>[](isLoading = FALSE)

\* every invocation has been started, one of them returned because it was
\* superseded, none is in flight and isLoading is false
C25_Witness ==
  /\ nInv = MaxInv
  /\ NoneInFlight
  /\ \E i \in InvIds : Finished(i, "aborted")
  /\ isLoading = FALSE

(***************************************************************************)
(* The stale-cache fallback of fetchHistoricalData.                        *)
(***************************************************************************)
\* the symbols of an invocation whose provider call or cache write failed
FailedOf(r) == r.provFailed \cup r.writeFailed

\* C26: when an invocation commits, every symbol whose provider call or cache
\* write failed is in failedSymbols; the valuation gets the series read from
\* the cache for such a symbol when that series is not empty, and nothing
\* for it when the series is empty; and the published series is the
\* valuation of that.
C26_StaleCacheFallback ==
  \A i \in InvIds : Committed(i) =>
    LET r == inv[i]
    IN /\ \A s \in FailedOf(r) :
            /\ s \in Range(failedSymbols)
            /\ r.readOf[s] # <<>> =>
                 (s \in DOMAIN r.candlesBySymbol /\ r.candlesBySymbol[s] = r.readOf[s])
            /\ r.readOf[s] = <<>> => s \notin DOMAIN r.candlesBySymbol
       /\ data = computePortfolioHistory(r.holdings, r.candlesBySymbol, r.range,
                                         clock, tzOffset)

\* an invocation committed after the provider failed for its only symbol,
\* whose cached series was rejected, and the series published from the cached
\* points is not empty
C26_Witness ==
  \E i \in InvIds :
    /\ Committed(i)
    /\ Len(inv[i].symbols) = 1
    /\ inv[i].provFailed = {inv[i].symbols[1]}
    /\ inv[i].readOf[inv[i].symbols[1]] # <<>>
    /\ failedSymbols = inv[i].symbols
    /\ data # <<>>

(***************************************************************************)
(* Cache effectiveness.                                                    *)
(***************************************************************************)
Started(i) == inv[i].pc # "idle" /\ inv[i].outcome # "early"

\* invocation i fetched a series for symbol s that is not empty, and its put
\* of the series has returned
PutDone(i, s) ==
  /\ Started(i)
  /\ s \in DOMAIN inv[i].fetchedOf
  /\ inv[i].fetchedOf[s] # <<>>

\* invocation k is putting a series for symbol s, or a put of it failed
PutBegun(k, s) ==
  /\ Started(k)
  /\ \/ s \in inv[k].writeFailed
     \/ /\ InFlight(k)
        /\ inv[k].pc \in {"cacheDelete", "cacheBulkPut", "cacheMeta"}
        /\ SymbolOf(inv[k]) = s

\* the points of a series dated within [fromDate, toDate]
WithinWindow(candles, fromDate, toDate) ==
  SelectSeq(candles, LAMBDA c : c.date >= fromDate /\ c.date <= toDate)

\* invocation j, for the same holdings and provider as i, is about to get the
\* series cached for symbol s, which i has put and no other invocation has
\* put or begun to put
ReadsAfterPut(i, j, s) ==
  /\ i # j
  /\ PutDone(i, s)
  /\ InFlight(j)
  /\ inv[j].pc = "cacheRead"
  /\ SymbolOf(inv[j]) = s
  /\ inv[j].holdings = inv[i].holdings
  /\ inv[j].activeProvider = inv[i].activeProvider
  /\ \A k \in InvIds \ {i} : ~PutDone(k, s) /\ ~PutBegun(k, s)
  /\ inv'[j] # inv[j]
  /\ inv'[j].outcome # "failed"

CallsProvider(j) == inv'[j].pc = "fetch" /\ inv'[j].idx = inv[j].idx

\* C27: when an invocation has put the non-empty series it fetched for a
\* symbol, the points of the series within the window are accepted by the
\* coverage validator, and no other put of the symbol has begun, an
\* invocation with the same holdings that reads the cache for the symbol
\* gets those points and calls no provider for the symbol.
C27_CacheEffective ==
  [][\A i \in InvIds, j \in InvIds, s \in Symbols :
       (ReadsAfterPut(i, j, s)
          /\ ~Unusable(WithinWindow(inv[i].fetchedOf[s], inv[j].fromDate, inv[j].toDate),
                       inv[j].fromDate, inv[j].toDate))
         => /\ inv'[j].readOf[s]
                 = WithinWindow(inv[i].fetchedOf[s], inv[j].fromDate, inv[j].toDate)
            /\ ~CallsProvider(j)]_vars

\* the first invocation committed, so the second one started after it; the
\* second went through its only symbol without a provider call, on the
\* series the first had fetched and put
C27_Witness ==
  /\ PutDone(1, "AAPL")
  /\ Finished(1, "committed")
  /\ Started(2)
  /\ inv[2].pc = "done"
  /\ inv[2].holdings = inv[1].holdings
  /\ inv[2].symbols = <<"AAPL">>
  /\ inv[2].readOf = ("AAPL" :> inv[1].fetchedOf["AAPL"])
  /\ inv[2].fetchedOf = << >>
  /\ inv[2].provFailed = {}
  /\ ~PutBegun(2, "AAPL")

\* C27 as stated: whatever the fetched series, the following invocation calls
\* no provider for the symbol.
C27_AsStated ==
  [][\A i \in InvIds, j \in InvIds, s \in Symbols :
       ReadsAfterPut(i, j, s) => ~CallsProvider(j)]_vars

-----------------------------------------------------------------------------
(* useSettingsStore (stores/portfolio.ts).  apiKeys is a JavaScript object:  *)
(* here the sequence of its entries in insertion order, which is the order  *)
(* of Object.keys.  Every action is one synchronous set().  settingsCall     *)
(* records the action called last and its provider argument.                *)

\* type ProviderId
ProviderIds == {"finnhub", "alphavantage", "twelvedata"}
\* the keys ProviderCard.handleSave passes on: trimmed and not empty
ApiKeyInputs == {"key1", "key2"}
StorageModes == {"session", "local"}

HasEntry(keys, provider) == \E i \in 1..Len(keys) : keys[i].provider = provider

\* apiKeys[provider]
KeyOf(keys, provider) ==
  IF HasEntry(keys, provider)
  THEN keys[CHOOSE i \in 1..Len(keys) : keys[i].provider = provider].key
  ELSE "undefined"

\* the truthiness of apiKeys[provider]
HasKey(keys, provider) ==
  KeyOf(keys, provider) # "undefined" /\ KeyOf(keys, provider) # ""

\* { ...apiKeys, [provider]: key }: an existing entry keeps its place
WithKey(keys, provider, key) ==
  IF HasEntry(keys, provider)
  THEN [i \in 1..Len(keys) |->
          IF keys[i].provider = provider
          THEN [provider |-> provider, key |-> key] ELSE keys[i]]
  ELSE Append(keys, [provider |-> provider, key |-> key])

\* delete newKeys[provider]
WithoutKey(keys, provider) ==
  SelectSeq(keys, LAMBDA e : e.provider # provider)

\* removeApiKey that never moves the active provider
NewActiveKept(newKeys, active, provider) == active

\* removeApiKey: the active provider after the removal
NewActive(newKeys, active, provider) ==
  IF active = provider
  THEN IF Len(newKeys) > 0 THEN newKeys[1].provider ELSE NoActiveProvider
  ELSE active

SetApiKey(provider, key) ==
  /\ apiKeys' = WithKey(apiKeys, provider, key)
  /\ activeProviderSetting' =
       IF activeProviderSetting # NoActiveProvider
       THEN activeProviderSetting ELSE provider
  /\ settingsCall' = [op |-> "setApiKey", provider |-> provider]
  /\ UNCHANGED <<storageMode, dbVars, cacheVars, clock, tzOffset, callVars,
                 pfVars, wlVars, storeVars, hookVars>>

RemoveApiKey(provider) ==
  /\ apiKeys' = WithoutKey(apiKeys, provider)
  /\ activeProviderSetting' =
       NewActive(WithoutKey(apiKeys, provider), activeProviderSetting, provider)
  /\ settingsCall' = [op |-> "removeApiKey", provider |-> provider]
  /\ UNCHANGED <<storageMode, dbVars, cacheVars, clock, tzOffset, callVars,
                 pfVars, wlVars, storeVars, hookVars>>

SetActiveProvider(provider) ==
  /\ activeProviderSetting' =
       IF HasKey(apiKeys, provider) THEN provider ELSE activeProviderSetting
  /\ settingsCall' = [op |-> "setActiveProvider", provider |-> provider]
  /\ UNCHANGED <<apiKeys, storageMode, dbVars, cacheVars, clock, tzOffset,
                 callVars, pfVars, wlVars, storeVars, hookVars>>

SetStorageMode(mode) ==
  /\ storageMode' = mode
  /\ settingsCall' = [op |-> "setStorageMode", provider |-> NoActiveProvider]
  /\ UNCHANGED <<apiKeys, activeProviderSetting, dbVars, cacheVars, clock,
                 tzOffset, callVars, pfVars, wlVars, storeVars, hookVars>>

NextSettings ==
  \/ \E p \in ProviderIds, k \in ApiKeyInputs : SetApiKey(p, k)
  \/ \E p \in ProviderIds : RemoveApiKey(p)
  \/ \E p \in ProviderIds : SetActiveProvider(p)
  \/ \E m \in StorageModes : SetStorageMode(m)

SpecSettings == InitDb /\ [][NextSettings]_vars

\* C30: after any sequence of setApiKey, removeApiKey and setActiveProvider
\* the active provider is null or a provider with a stored key, it is null
\* exactly when no key is stored, and a setActiveProvider for a provider
\* without a key leaves the settings as they were.
C30_ActiveHasKey ==
  /\ [](/\ activeProviderSetting # NoActiveProvider
             => HasKey(apiKeys, activeProviderSetting)
        /\ activeProviderSetting = NoActiveProvider <=> apiKeys = <<>>)
  /\ [][(/\ settingsCall'.op = "setActiveProvider"
         /\ ~HasKey(apiKeys, settingsCall'.provider))
           => UNCHANGED settingsState]_vars

\* the active provider's key was removed while another key was stored, and a
\* setActiveProvider for the provider without a key came last
C30_Witness ==
  /\ Len(apiKeys) = 1
  /\ activeProviderSetting = "alphavantage"
  /\ settingsCall = [op |-> "setActiveProvider", provider |-> "finnhub"]

-----------------------------------------------------------------------------
(* usePortfolioStore (stores/portfolio.ts).  Every action is an async        *)
(* function: a call runs to its first await, and each await that settles     *)
(* runs the code up to the next one.  The database operations are those of   *)
(* lib/db; each is its own transaction.  createsOverlapped records that a    *)
(* createPortfolio call was in flight together with another action.          *)

StoreInFlight(k) == storeTasks[k].pc \notin {"idle", "done"}
StoreQuiet == \A k \in StoreIds : ~StoreInFlight(k)
CreateInFlight == \E k \in StoreIds : storeTasks[k].pc = "createPortfolio"

\* db.portfolios.orderBy('createdAt').reverse().toArray(): descending by
\* createdAt, rows of one createdAt descending by id
RECURSIVE getPortfolios(_)
getPortfolios(rows) ==
  IF rows = {} THEN <<>>
  ELSE LET first == CHOOSE p \in rows : \A q \in rows :
                      \/ q.createdAt < p.createdAt
                      \/ (q.createdAt = p.createdAt /\ q.id <= p.id)
       IN <<first>> \o getPortfolios(rows \ {first})

\* portfolios[0]?.id ?? null
FirstId(list) == IF Len(list) > 0 THEN list[1].id ELSE NoId

\* a new call of a store action; the variables of the settings store and of
\* everything outside the portfolio tables stay as they are
StoreCall(task, isCreate) ==
  /\ nStore < MaxStore
  /\ nStore' = nStore + 1
  /\ storeTasks' = [storeTasks EXCEPT ![nStore + 1] = task]
  /\ createsOverlapped' =
       \/ createsOverlapped
       \/ (isCreate /\ ~StoreQuiet)
       \/ CreateInFlight
  /\ UNCHANGED <<dbVars, cacheVars, clock, tzOffset, callVars, wlVars,
                 settingsVars, hookVars>>

\* an await of call k settles and the call goes on as task
StoreStep(k, task) ==
  /\ storeTasks' = [storeTasks EXCEPT ![k] = task]
  /\ UNCHANGED <<nStore, createsOverlapped>>
  /\ UNCHANGED <<dbVars, cacheVars, clock, tzOffset, callVars, wlVars,
                 settingsVars, hookVars>>

DoneStore == [pc |-> "done"]
TablesUnchanged ==
  UNCHANGED <<pfTables, addTasks, nAdds, additions, addsOverlapped>>

\* loadPortfolios(): set({isLoading: true, error: null})
LoadPortfoliosCall ==
  /\ StoreCall([pc |-> "loadPortfolios"], FALSE)
  /\ storeIsLoading' = TRUE
  /\ storeError' = NoStoreError
  /\ UNCHANGED <<portfolios, activePortfolioId, storeHoldings>>
  /\ TablesUnchanged

\* await getPortfolios() resolves
LoadPortfoliosList(k) ==
  /\ storeTasks[k].pc = "loadPortfolios"
  /\ LET list == getPortfolios(portfolioRows)
         newActiveId == IF Len(list) > 0 /\ activePortfolioId = NoId
                        THEN FirstId(list) ELSE activePortfolioId
     IN IF newActiveId # NoId
        THEN /\ StoreStep(k, [pc |-> "loadHoldings", portfolios |-> list,
                              newActiveId |-> newActiveId])
             /\ UNCHANGED storeState
        ELSE /\ StoreStep(k, DoneStore)
             /\ portfolios' = list
             /\ activePortfolioId' = newActiveId
             /\ storeHoldings' = {}
             /\ storeIsLoading' = FALSE
             /\ UNCHANGED storeError
  /\ TablesUnchanged

\* await getHoldings(newActiveId) resolves
LoadPortfoliosSet(k) ==
  /\ storeTasks[k].pc = "loadHoldings"
  /\ StoreStep(k, DoneStore)
  /\ portfolios' = storeTasks[k].portfolios
  /\ activePortfolioId' = storeTasks[k].newActiveId
  /\ storeHoldings' = getHoldings(holdingRows, storeTasks[k].newActiveId)
  /\ storeIsLoading' = FALSE
  /\ UNCHANGED storeError
  /\ TablesUnchanged

\* setActivePortfolio(id)
SetActivePortfolioCall(id) ==
  /\ id < nextPortfolioId
  /\ activePortfolioId' = id
  /\ IF id # NoId
     THEN /\ StoreCall([pc |-> "setActivePortfolio", id |-> id], FALSE)
          /\ UNCHANGED storeHoldings
     ELSE /\ StoreCall(DoneStore, FALSE)
          /\ storeHoldings' = {}
  /\ UNCHANGED <<portfolios, storeIsLoading, storeError>>
  /\ TablesUnchanged

\* await getHoldings(id) resolves
SetActivePortfolioSet(k) ==
  /\ storeTasks[k].pc = "setActivePortfolio"
  /\ StoreStep(k, DoneStore)
  /\ storeHoldings' = getHoldings(holdingRows, storeTasks[k].id)
  /\ UNCHANGED <<portfolios, activePortfolioId, storeIsLoading, storeError>>
  /\ TablesUnchanged

\* createPortfolio(name): await dbCreatePortfolio(name) resolves
CreatePortfolioCall ==
  /\ nextPortfolioId <= MaxPortfolios
  /\ StoreCall([pc |-> "createPortfolio", id |-> nextPortfolioId], TRUE)
  /\ portfolioRows' = portfolioRows \cup
        {[id |-> nextPortfolioId, name |-> "portfolio", createdAt |-> clock]}
  /\ nextPortfolioId' = nextPortfolioId + 1
  /\ UNCHANGED <<holdingRows, nextHoldingId, addTasks, nAdds, additions,
                 addsOverlapped>>
  /\ UNCHANGED storeState

\* await getPortfolios() resolves
CreatePortfolioSet(k) ==
  /\ storeTasks[k].pc = "createPortfolio"
  /\ StoreStep(k, DoneStore)
  /\ portfolios' = getPortfolios(portfolioRows)
  /\ activePortfolioId' = storeTasks[k].id
  /\ storeHoldings' = {}
  /\ UNCHANGED <<storeIsLoading, storeError>>
  /\ TablesUnchanged

\* deletePortfolio(id): await dbDeletePortfolio(id) resolves
DeletePortfolioCall(id) ==
  /\ id # NoId
  /\ id < nextPortfolioId
  /\ StoreCall([pc |-> "deletePortfolio", id |-> id], FALSE)
  /\ holdingRows' = DeleteHoldingRows(holdingRows, id)
  /\ portfolioRows' = {p \in portfolioRows : p.id # id}
  /\ UNCHANGED <<nextPortfolioId, nextHoldingId, addTasks, nAdds, additions,
                 addsOverlapped>>
  /\ UNCHANGED storeState

\* await getPortfolios() resolves
DeletePortfolioList(k) ==
  /\ storeTasks[k].pc = "deletePortfolio"
  /\ LET list == getPortfolios(portfolioRows)
         newActiveId == IF activePortfolioId = storeTasks[k].id
                        THEN FirstId(list) ELSE activePortfolioId
     IN IF newActiveId # NoId
        THEN /\ StoreStep(k, [pc |-> "deleteHoldings", portfolios |-> list,
                              newActiveId |-> newActiveId])
             /\ UNCHANGED storeState
        ELSE /\ StoreStep(k, DoneStore)
             /\ portfolios' = list
             /\ activePortfolioId' = newActiveId
             /\ storeHoldings' = {}
             /\ UNCHANGED <<storeIsLoading, storeError>>
  /\ TablesUnchanged

\* await getHoldings(newActiveId) resolves
DeletePortfolioSet(k) ==
  /\ storeTasks[k].pc = "deleteHoldings"
  /\ StoreStep(k, DoneStore)
  /\ portfolios' = storeTasks[k].portfolios
  /\ activePortfolioId' = storeTasks[k].newActiveId
  /\ storeHoldings' = getHoldings(holdingRows, storeTasks[k].newActiveId)
  /\ UNCHANGED <<storeIsLoading, storeError>>
  /\ TablesUnchanged

\* addHolding(symbol, shares, avgCost): without an active portfolio the error
\* is set; otherwise dbAddHolding(activePortfolioId, symbol, shares, avgCost)
\* runs to its first await
StoreAddHoldingCall(symbol, lot) ==
  IF activePortfolioId = NoId
  THEN /\ StoreCall(DoneStore, FALSE)
       /\ storeError' = "No active portfolio"
       /\ UNCHANGED <<portfolios, activePortfolioId, storeHoldings, storeIsLoading>>
       /\ TablesUnchanged
  ELSE /\ nAdds < MaxAdds
       /\ StoreCall([pc |-> "addHolding", add |-> nAdds + 1,
                     activePortfolioId |-> activePortfolioId], FALSE)
       /\ nAdds' = nAdds + 1
       /\ addTasks' = [addTasks EXCEPT ![nAdds + 1] =
            [pc |-> "find", portfolioId |-> activePortfolioId,
             symbol |-> symbol, shares |-> lot[1], avgCost |-> Frac(lot[2], 1),
             addedAt |-> {}]]
       /\ additions' = additions \cup
            {[call |-> nAdds + 1, portfolioId |-> activePortfolioId,
              symbol |-> ToUpperCase(symbol), shares |-> lot[1],
              avgCost |-> lot[2], addedAt |-> clock]}
       /\ addsOverlapped' = (addsOverlapped \/ \E u \in AddIds : AddInFlight(u))
       /\ UNCHANGED pfTables
       /\ UNCHANGED storeState

\* dbAddHolding has resolved and await getHoldings(activePortfolioId) resolves
StoreAddHoldingSet(k) ==
  /\ storeTasks[k].pc = "addHolding"
  /\ addTasks[storeTasks[k].add].pc = "done"
  /\ StoreStep(k, DoneStore)
  /\ storeHoldings' = getHoldings(holdingRows, storeTasks[k].activePortfolioId)
  /\ UNCHANGED <<portfolios, activePortfolioId, storeIsLoading, storeError>>
  /\ TablesUnchanged

\* updateHolding(id, shares, avgCost), up to await dbUpdateHolding
UpdateHoldingCall(id, lot) ==
  /\ id < nextHoldingId
  /\ StoreCall([pc |-> "updateHolding", id |-> id, shares |-> lot[1],
                avgCost |-> Frac(lot[2], 1),
                activePortfolioId |-> activePortfolioId], FALSE)
  /\ UNCHANGED storeState
  /\ TablesUnchanged

\* deleteHolding(id), up to await dbDeleteHolding
DeleteHoldingCall(id) ==
  /\ id < nextHoldingId
  /\ StoreCall([pc |-> "deleteHolding", id |-> id,
                activePortfolioId |-> activePortfolioId], FALSE)
  /\ UNCHANGED storeState
  /\ TablesUnchanged

\* db.holdings.update(id, {shares, avgCost})
UpdateHoldingRow(rows, id, shares, avgCost) ==
  {IF h.id = id THEN [h EXCEPT !.shares = shares, !.avgCost = avgCost] ELSE h :
     h \in rows}

\* db.holdings.delete(id)
DeleteHoldingRow(rows, id) == {h \in rows : h.id # id}

\* await dbUpdateHolding / dbDeleteHolding resolves
StoreHoldingDb(k) ==
  /\ storeTasks[k].pc \in {"updateHolding", "deleteHolding"}
  /\ LET t == storeTasks[k]
     IN /\ holdingRows' =
             IF t.pc = "updateHolding"
             THEN UpdateHoldingRow(holdingRows, t.id, t.shares, t.avgCost)
             ELSE DeleteHoldingRow(holdingRows, t.id)
        /\ IF t.activePortfolioId # NoId
           THEN StoreStep(k, [pc |-> "refreshHoldings",
                              activePortfolioId |-> t.activePortfolioId])
           ELSE StoreStep(k, DoneStore)
  /\ UNCHANGED <<portfolioRows, nextPortfolioId, nextHoldingId, addTasks,
                 nAdds, additions, addsOverlapped>>
  /\ UNCHANGED storeState

\* await getHoldings(activePortfolioId) resolves
StoreHoldingSet(k) ==
  /\ storeTasks[k].pc = "refreshHoldings"
  /\ StoreStep(k, DoneStore)
  /\ storeHoldings' = getHoldings(holdingRows, storeTasks[k].activePortfolioId)
  /\ UNCHANGED <<portfolios, activePortfolioId, storeIsLoading, storeError>>
  /\ TablesUnchanged

NextStore ==
  \/ LoadPortfoliosCall
  \/ \E k \in StoreIds : LoadPortfoliosList(k)
  \/ \E k \in StoreIds : LoadPortfoliosSet(k)
  \/ \E id \in 0..MaxPortfolios : SetActivePortfolioCall(id)
  \/ \E k \in StoreIds : SetActivePortfolioSet(k)
  \/ CreatePortfolioCall
  \/ \E k \in StoreIds : CreatePortfolioSet(k)
  \/ \E id \in 1..MaxPortfolios : DeletePortfolioCall(id)
  \/ \E k \in StoreIds : DeletePortfolioList(k)
  \/ \E k \in StoreIds : DeletePortfolioSet(k)
  \/ \E s \in SymbolInputs, l \in LotInputs : StoreAddHoldingCall(s, l)
  \/ \E k \in AddIds : AddHoldingFind(k)
  \/ \E k \in AddIds : AddHoldingUpdate(k)
  \/ \E k \in AddIds : AddHoldingAdd(k)
  \/ \E k \in StoreIds : StoreAddHoldingSet(k)
  \/ \E id \in 1..MaxAdds, l \in LotInputs : UpdateHoldingCall(id, l)
  \/ \E id \in 1..MaxAdds : DeleteHoldingCall(id)
  \/ \E k \in StoreIds : StoreHoldingDb(k)
  \/ \E k \in StoreIds : StoreHoldingSet(k)

SpecStore == InitDb /\ [][NextStore]_vars

\* holdings of the portfolio the store shows
HoldingsOfActive ==
  IF activePortfolioId = NoId THEN {}
  ELSE getHoldings(holdingRows, activePortfolioId)

\* C28: once every store action called (setActivePortfolio, addHolding,
\* updateHolding, deleteHolding, deletePortfolio, loadPortfolios, in any
\* interleaving) has completed, the store's holdings are the stored holdings
\* of activePortfolioId, and empty when it is null.
C28_HoldingsOfActive ==
  (StoreQuiet /\ ~createsOverlapped) => storeHoldings = HoldingsOfActive

\* C29: every stored holding belongs to a stored portfolio.
C29_NoOrphanHoldings ==
  \A h \in holdingRows : \E p \in portfolioRows : p.id = h.portfolioId

=============================================================================
